---- MODULE Spec2Model ----
(***************************************************************************)
(* Verification model of turok: the multi-source search orchestrator       *)
(* (core/search.py), the Source implementations (core/sources), the        *)
(* configuration store (core/config), the site analyzer (core/analyzer)    *)
(* and the TUI main screen (ui/screens/main.py).                           *)
(*                                                                         *)
(* Each entry point has its own specification over the shared variables:   *)
(*   SpecSync    SearchOrchestrator.search_sync and the CLI's search_all   *)
(*   SpecStream  search_streaming_iter and search_streaming                *)
(*   SpecEquiv   search_sync with default arguments, then the iterator     *)
(*   SpecSort    SearchOrchestrator._sort_results                          *)
(*   SpecUi      the main screen's searches and their workers              *)
(*   SpecCfg     ConfigManager and the orchestrator's source registry      *)
(*   SpecMagnet  SearchOrchestrator.get_magnet                             *)
(*   SpecSource  Source.search of the five implementations                 *)
(*   SpecTrackers  add_trackers                                            *)
(*   SpecAnalyze   the add command: SiteAnalyzer.analyze, then the known   *)
(*                 patterns                                                *)
(*   SpecValidate  validate_config                                         *)
(*   SpecProbe     SiteAnalyzer.analyze alone, with pages without results  *)
(*   SpecDynamic   DynamicSource.search                                    *)
(*   SpecLoad      ConfigManager.load_all on a hand-written file           *)
(*   SpecStore     ConfigManager.save, remove and set_enabled              *)
(*   SpecHealth    TorrentResult.health                                    *)
(***************************************************************************)
EXTENDS Integers, Sequences, FiniteSets, Bags, TLC

(***************************************************************************)
(* Bounds of the model.                                                    *)
(***************************************************************************)
\* longest short output of one source (a source may also return a full page)
MaxSmallOut == 2
\* the caller-supplied limits range over -MaxLimitMag..MaxLimitMag
MaxLimitMag == 2
\* longest input list of _sort_results explored exhaustively
MaxSortLen == 3
\* searches the user starts on the main screen
MaxSearches == 2
\* the Worker.StateChanged messages that may wait to be handled
MaxInbox == 2
\* site keys of the configuration store
NumSiteKeys == 2
\* get_magnet calls on one Result
MaxMagnetCalls == 2
\* result items on one page
MaxItems == 3
\* seeders and leechers of a Result whose health is read
MaxSeeders == 104
MaxLeechers == 53
\* short pages of a configured site (it may also return a page longer than
\* the 30 items that are examined)
MaxDynItems == 2
\* parameters of a magnet handed to add_trackers
MaxParams == 2
\* elements the result_item selector of a validated config matches
MaxMatched == 6

(***************************************************************************)
(* Program constants.                                                      *)
(***************************************************************************)
\* rows[:30], data[:30], items[:30]: every source examines at most 30 items
PerSourceCap == 30
\* search_sync(..., limit: int = 50, ...)
DefaultLimit == 50
DefaultSort == "seeders"

(***************************************************************************)
(* A magnet string is a sequence of tokens, each a separator ("magnet:?"   *)
(* for the first parameter, "&" for a later one), a key and a value, so    *)
(* that the substring "&tr=" is a token with separator "&" and key "tr".   *)
(* The empty string is the empty sequence.                                 *)
(***************************************************************************)
Token(sep, key, val) == [sep |-> sep, key |-> key, val |-> val]

\* python's None for the optional magnet_link
None == <<Token("None", "", "")>>

Min(a, b) == IF a < b THEN a ELSE b
Max(a, b) == IF a > b THEN a ELSE b

(***************************************************************************)
(* The registry of SearchOrchestrator.__init__: three built-in adapters,   *)
(* in this order.                                                          *)
(***************************************************************************)
Sources == <<"1337x", "TPB", "RARBG">>
NumSources == Len(Sources)
SourceIdx == 1..NumSources
SourceNames == {Sources[i] : i \in SourceIdx}

(***************************************************************************)
(* TorrentResult.  A title is a tuple of code points, so that lower() and  *)
(* the ordering of strings are computed and not assumed.                   *)
(***************************************************************************)
TorrentResult(title, seeders, leechers, size, source, magnet, detail) ==
    [title |-> title, seeders |-> seeders, leechers |-> leechers, size |-> size,
     source |-> source, magnet_link |-> magnet, detail_url |-> detail]

\* the k-th result a source lists: titles "a"/"A", seeders 0..2, sizes 0..1,
\* so that keys tie within a source and across sources
ListedResult(s, k) ==
    TorrentResult(<<65 + 32 * (k % 2)>>, k % 3, 0, (k + 1) % 2, s, None, "None")

FullOut(s) == [k \in 1..PerSourceCap |-> ListedResult(s, k)]

\* what one call of source.search does: it returns a list of one of the
\* lengths in lens, or it raises
Outcomes(s, lens) ==
    {[raises |-> TRUE, results |-> <<>>]} \cup
    {[raises |-> FALSE, results |-> SubSeq(FullOut(s), 1, n)] : n \in lens}

BackingsOver(lens) ==
    {b \in [SourceIdx -> UNION {Outcomes(Sources[i], lens) : i \in SourceIdx}] :
        \A i \in SourceIdx : b[i] \in Outcomes(Sources[i], lens)}

\* short outputs only
SmallBackings == BackingsOver(0..MaxSmallOut)

\* short outputs and full pages
Backings == BackingsOver((0..MaxSmallOut) \cup {PerSourceCap})

(***************************************************************************)
(* sorted(): a stable ascending sort; with reverse=True the list is        *)
(* reversed, sorted ascending and reversed again, as CPython does.         *)
(***************************************************************************)
Lower(cp) == IF cp >= 65 /\ cp <= 90 THEN cp + 32 ELSE cp
LowerStr(t) == [i \in 1..Len(t) |-> Lower(t[i])]

RECURSIVE LexLess(_, _)
LexLess(a, b) ==
    IF b = <<>> THEN FALSE
    ELSE IF a = <<>> THEN TRUE
    ELSE IF a[1] < b[1] THEN TRUE
    ELSE IF a[1] > b[1] THEN FALSE
    ELSE LexLess(Tail(a), Tail(b))

\* key(x) < key(y) for the key function of the mode
KeyLess(mode, x, y) ==
    IF mode = "size" THEN x.size < y.size
    ELSE IF mode = "name" THEN LexLess(LowerStr(x.title), LowerStr(y.title))
    ELSE IF mode = "confidence" THEN x.confidence < y.confidence
    ELSE x.seeders < y.seeders

\* the stable merge of two sorted runs: of two elements with equal keys the one
\* of the left run comes first; posA and posB are the places the elements of
\* the two runs take in the merged list
MergeRuns(a, b, mode) ==
    LET posA == [i \in 1..Len(a) |->
                    i + Cardinality({j \in 1..Len(b) : KeyLess(mode, b[j], a[i])})]
        posB == [j \in 1..Len(b) |->
                    j + Cardinality({i \in 1..Len(a) : ~KeyLess(mode, b[j], a[i])})]
    IN  [p \in 1..(Len(a) + Len(b)) |->
            IF \E i \in 1..Len(a) : posA[i] = p
            THEN a[CHOOSE i \in 1..Len(a) : posA[i] = p]
            ELSE b[CHOOSE j \in 1..Len(b) : posB[j] = p]]

\* list.sort without reverse: a stable merge sort
RECURSIVE StableSort(_, _)
StableSort(s, mode) ==
    IF Len(s) <= 1 THEN s
    ELSE LET half == Len(s) \div 2
         IN  MergeRuns(StableSort(SubSeq(s, 1, half), mode),
                       StableSort(SubSeq(s, half + 1, Len(s)), mode), mode)

Reverse(s) == [i \in 1..Len(s) |-> s[Len(s) + 1 - i]]

\* a descending sort that forgets the first reversal: equal keys come out swapped
SortedReverseUnstable(s, mode) == Reverse(StableSort(s, mode))

SortedReverse(s, mode) == Reverse(StableSort(Reverse(s), mode))

SortResults(results, sort_by) ==
    IF sort_by = "size" THEN SortedReverse(results, "size")
    ELSE IF sort_by = "name" THEN StableSort(results, "name")
    ELSE SortedReverse(results, "seeders")

\* python's seq[:limit]
PySliceTo(s, limit) ==
    IF limit >= 0 THEN SubSeq(s, 1, Min(limit, Len(s)))
    ELSE SubSeq(s, 1, Max(Len(s) + limit, 0))

SeqToBag(s) ==
    LET rng == {s[i] : i \in 1..Len(s)}
    IN  [x \in rng |-> Cardinality({i \in 1..Len(s) : s[i] = x})]

VARIABLES
    backing,      \* what each source's search does in this run
    syEntry,      \* the blocking entry point: "search_sync" or "search_all"
    syPc,         \* blocking search: "idle", "collect", "done"
    syTask,       \* per source: "none", "running", "returned", "raised"
    syGot,        \* the futures whose result the collecting loop has taken
    syAll,        \* all_results
    syRet,        \* the returned list
    syLimit,      \* argument limit
    sySort,       \* argument sort_by
    stEntry,      \* the streaming entry point: "iter" or "callback"
    stPc,         \* "idle", "loading", "consume", "gather", "end", "returned", "raised"
    stLoad,       \* index of the next source to announce
    stTask,       \* per source: "none", "running", "done", "failed"
    stQueue,      \* the asyncio.Queue of search_streaming_iter
    stCompleted,  \* the counter of search_streaming_iter
    stAll,        \* all_results of search_streaming
    stEvents,     \* the updates handed to the consumer so far, in order
    soPc,         \* _sort_results: "idle", "call", "returned"
    soIn,         \* argument results
    soMode,       \* argument sort_by
    soOut,        \* the returned list
    uiGen,        \* MainScreen: the number of searches started so far
    uiQuery,      \* _current_query
    uiWorker,     \* per search and source, the worker's state
    uiInbox,      \* Worker.StateChanged messages the screen has not handled yet
    uiSrcRes,     \* _source_results: per source, the search whose results it holds
    uiStatus,     \* the status shown per source ("none": no status widget)
    uiStatusBy,   \* per source, the search whose worker last set the status
    uiFinish,     \* the last _finish_search: the search current then, whose event ran it, what it showed
    cfgExists,    \* ConfigManager: sites.yaml exists
    cfgSites,     \* per site key: "absent", "enabled", "disabled"
    cfgRet,       \* what the last remove or set_enabled returned
    regSources,   \* orchestrator.sources, by name (empty: not constructed)
    regSeen,      \* the site keys that were enabled when it was constructed
    regFanout,    \* the sources the last search was sent to
    regDispatch,  \* the source name the last get_magnet asked for, and where it went
    gmPc,         \* get_magnet: "idle", "ready", "called" (orchestrator), "direct" (Source)
    gmCalls,      \* calls made on gmResult
    gmResult,     \* the TorrentResult passed to get_magnet
    gmPre,        \* the same Result before the last call
    gmVia,        \* the Source whose get_magnet the last call ran
    gmAnswer,     \* what that Source's get_magnet returned
    gmRet,        \* what the last call returned
    gmFetches,    \* network fetches of the last call
    gmPage,       \* what the detail page held at the last call: magnet and size text
    scKind,       \* Source.search: the implementation
    scFetch,      \* what the fetch of the results page does
    scItems,      \* the items of the page
    scPc,         \* "idle", "fetch", "loop", "returned"
    scIdx,        \* the item the loop is at
    scResults,    \* results
    scErr,        \* an exception was caught
    scRaised,     \* an exception left search
    atPc,         \* add_trackers: "idle", "call", "returned"
    atIn,         \* argument magnet
    atOut,        \* add_trackers(magnet)
    atTwice,      \* add_trackers(add_trackers(magnet))
    anPc,         \* the add flow: "idle", "home", "pattern", "structure", "analyzed", "known", "exit"
    anHome,       \* what the fetch of the homepage does: "ok", "fail"
    anForm,       \* the search form of the homepage
    anPage,       \* the results page of the site
    anPatterns,   \* search_patterns
    anPi,         \* the pattern the loop is at
    anStructs,    \* structures, of the page fetched for the current pattern
    anSi,         \* the structure the inner loop is at
    anKi,         \* the known config the loop is at
    anLog,        \* SiteAnalyzer._attempts
    anFirst,      \* what analyze returned
    anResult,     \* result of cmd_add after both phases
    anTrace,      \* every step the analyzer ran, in order
    vlPc,         \* validate_config: "idle", "call", "returned"
    vlFetch,      \* what rendering and fetching the search URL does
    vlSelErr,     \* the selector that is malformed, or "none"
    vlItems,      \* the elements result_item matches, by what the title selector finds
    vlRet,        \* the ValidationResult
    vlRaised,     \* an exception left validate_config
    dyPc,         \* DynamicSource.search: "idle", "call", "returned"
    dyFetch,      \* what rendering and fetching the search URL does
    dyItems,      \* the elements result_item matches
    dyResults,    \* results
    dyErr,        \* an exception was caught
    fsPc,         \* the sites file: "idle", "ready", "loaded"
    fsFile,       \* what sites.yaml holds
    fsRet,        \* what the last remove or set_enabled returned
    fsLoaded,     \* what load_all returns
    fsEnabled,    \* the keys load_enabled returns
    fsRaised,     \* an exception left the last operation
    fsHist,       \* what the operations so far say each key holds, and the last one
    hlPc,         \* TorrentResult.health: "idle", "read"
    hlResult,     \* the Result
    hlHealth,     \* its health
    hlPrev        \* a Result with the same leechers and no more seeders, and its health

syncVars == <<syEntry, syPc, syTask, syGot, syAll, syRet, syLimit, sySort>>
streamVars == <<stEntry, stPc, stLoad, stTask, stQueue, stCompleted, stAll, stEvents>>
sortVars == <<soPc, soIn, soMode, soOut>>
uiVars == <<uiGen, uiQuery, uiWorker, uiInbox, uiSrcRes, uiStatus, uiStatusBy, uiFinish>>
cfgVars == <<cfgExists, cfgSites, cfgRet, regSources, regSeen, regFanout, regDispatch>>
gmVars == <<gmPc, gmCalls, gmResult, gmPre, gmVia, gmAnswer, gmRet, gmFetches, gmPage>>
scVars == <<scKind, scFetch, scItems, scPc, scIdx, scResults, scErr, scRaised>>
atVars == <<atPc, atIn, atOut, atTwice>>
anVars == <<anPc, anHome, anForm, anPage, anPatterns, anPi, anStructs, anSi, anKi,
            anLog, anFirst, anResult, anTrace>>
vlVars == <<vlPc, vlFetch, vlSelErr, vlItems, vlRet, vlRaised>>
dyVars == <<dyPc, dyFetch, dyItems, dyResults, dyErr>>
fsVars == <<fsPc, fsFile, fsRet, fsLoaded, fsEnabled, fsRaised, fsHist>>
hlVars == <<hlPc, hlResult, hlHealth, hlPrev>>
laterVars == <<dyVars, fsVars, hlVars>>
vars == <<backing, syncVars, streamVars, sortVars, uiVars, cfgVars, gmVars, scVars,
          atVars, anVars, vlVars, laterVars>>

\* what an action of one component leaves alone
exceptSync == <<streamVars, sortVars, uiVars, cfgVars, gmVars, scVars, atVars, anVars, vlVars, laterVars>>
exceptStream == <<syncVars, sortVars, uiVars, cfgVars, gmVars, scVars, atVars, anVars, vlVars, laterVars>>
exceptSort == <<backing, syncVars, streamVars, uiVars, cfgVars, gmVars, scVars, atVars, anVars, vlVars, laterVars>>
exceptUi == <<backing, syncVars, streamVars, sortVars, cfgVars, gmVars, scVars, atVars, anVars, vlVars, laterVars>>
exceptCfg == <<backing, syncVars, streamVars, sortVars, uiVars, gmVars, scVars, atVars, anVars, vlVars, laterVars>>
exceptGm == <<backing, syncVars, streamVars, sortVars, uiVars, cfgVars, scVars, atVars, anVars, vlVars, laterVars>>
exceptSc == <<backing, syncVars, streamVars, sortVars, uiVars, cfgVars, gmVars, atVars, anVars, vlVars, laterVars>>
searchVars == <<backing, syncVars, streamVars, sortVars, uiVars, cfgVars, gmVars, scVars>>
exceptAt == <<searchVars, anVars, vlVars, laterVars>>
exceptAn == <<searchVars, atVars, vlVars, laterVars>>
exceptVl == <<searchVars, atVars, anVars, laterVars>>
analyzerVars == <<atVars, anVars, vlVars>>
exceptDy == <<searchVars, analyzerVars, fsVars, hlVars>>
exceptFs == <<searchVars, analyzerVars, dyVars, hlVars>>
exceptHl == <<searchVars, analyzerVars, dyVars, fsVars>>

Limits == (0 - MaxLimitMag)..MaxLimitMag
SortArgs == {"seeders", "size", "name", "date"}

StreamIdle ==
    /\ stEntry = "idle"
    /\ stPc = "idle"
    /\ stLoad = 1
    /\ stTask = [i \in SourceIdx |-> "none"]
    /\ stQueue = <<>>
    /\ stCompleted = 0
    /\ stAll = <<>>
    /\ stEvents = <<>>

SiteKeys == 1..NumSiteKeys
SearchIds == 1..MaxSearches

SortIdle ==
    /\ soPc = "idle"
    /\ soIn = <<>>
    /\ soMode = DefaultSort
    /\ soOut = <<>>

UiIdle ==
    /\ uiGen = 0
    /\ uiQuery = ""
    /\ uiWorker = [g \in SearchIds |-> [i \in SourceIdx |-> "none"]]
    /\ uiInbox = <<>>
    /\ uiSrcRes = [i \in SourceIdx |-> 0]
    /\ uiStatus = [i \in SourceIdx |-> "none"]
    /\ uiStatusBy = [i \in SourceIdx |-> 0]
    /\ uiFinish = [shown |-> 0, by |-> 0, results |-> [i \in SourceIdx |-> 0]]

CfgIdle ==
    /\ cfgExists = FALSE
    /\ cfgSites = [k \in SiteKeys |-> "absent"]
    /\ cfgRet = "none"
    /\ regSources = <<>>
    /\ regSeen = {}
    /\ regFanout = {}
    /\ regDispatch = [asked |-> "none", via |-> "none"]

NoResult == TorrentResult(<<>>, 0, 0, 0, "", None, "None")

GmIdle ==
    /\ gmPc = "idle"
    /\ gmCalls = 0
    /\ gmResult = NoResult
    /\ gmPre = NoResult
    /\ gmVia = "none"
    /\ gmAnswer = None
    /\ gmRet = None
    /\ gmFetches = 0
    /\ gmPage = [magnet |-> None, size |-> "none"]

ScIdle ==
    /\ scKind = "none"
    /\ scFetch = "ok"
    /\ scItems = <<>>
    /\ scPc = "idle"
    /\ scIdx = 1
    /\ scResults = <<>>
    /\ scErr = FALSE
    /\ scRaised = FALSE

AtIdle ==
    /\ atPc = "idle"
    /\ atIn = <<>>
    /\ atOut = <<>>
    /\ atTwice = <<>>

\* a SiteConfig, by its search url_template and its result_item and title selectors
SiteConfig(tpl, item, title) == [url_template |-> tpl, result_item |-> item, title |-> title]

NoConfig == SiteConfig("", "", "")

AnalysisResult(success, config, error, attempts) ==
    [success |-> success, config |-> config, error |-> error, attempts |-> attempts]

NoAnalysis == AnalysisResult(FALSE, NoConfig, "", <<>>)

\* a results page: what "tbody tr", "ul li, ol li" and the card selectors
\* match, and for each article the title selector that finds its title
ResultsPage(rows, articles, cards, items) ==
    [rows |-> rows, articles |-> articles, cards |-> cards, items |-> items]

AnIdle ==
    /\ anPc = "idle"
    /\ anHome = "ok"
    /\ anForm = "none"
    /\ anPage = ResultsPage("none", <<>>, "none", "none")
    /\ anPatterns = <<>>
    /\ anPi = 1
    /\ anStructs = <<>>
    /\ anSi = 1
    /\ anKi = 1
    /\ anLog = <<>>
    /\ anFirst = NoAnalysis
    /\ anResult = NoAnalysis
    /\ anTrace = <<>>

ValidationResult(success, found, samples, error, selector) ==
    [success |-> success, results_found |-> found, sample_titles |-> samples,
     error |-> error, selector |-> selector]

NoValidation == ValidationResult(FALSE, 0, 0, "", "")

VlIdle ==
    /\ vlPc = "idle"
    /\ vlFetch = "ok"
    /\ vlSelErr = "none"
    /\ vlItems = <<>>
    /\ vlRet = NoValidation
    /\ vlRaised = FALSE

DyIdle ==
    /\ dyPc = "idle"
    /\ dyFetch = "ok"
    /\ dyItems = <<>>
    /\ dyResults = <<>>
    /\ dyErr = FALSE

\* a value of the "sites" mapping of sites.yaml: a mapping, by what each of
\* its keys holds, or null, a string or a list; "absent" is no value
YamlEntry(shape, name, base_url, enabled, search, selectors, patterns) ==
    [shape |-> shape, name |-> name, base_url |-> base_url, enabled |-> enabled,
     search |-> search, selectors |-> selectors, patterns |-> patterns]

Absent ==
    YamlEntry("absent", "missing", "missing", "missing", "missing", "missing", "missing")

\* sites.yaml does not exist
NoFile == [exists |-> FALSE, sites |-> [k \in SiteKeys |-> Absent]]

\* a SiteConfig of the store, by its name and its enabled flag
StoredConfig(name, enabled) == [loaded |-> TRUE, name |-> name, enabled |-> enabled]

NotLoaded == [loaded |-> FALSE, name |-> "", enabled |-> FALSE]

\* no operation yet
NoHistory ==
    [holds |-> [k \in SiteKeys |-> "absent"], op |-> "none", key |-> 0, before |-> NoFile]

FsIdle ==
    /\ fsPc = "idle"
    /\ fsFile = NoFile
    /\ fsRet = "none"
    /\ fsLoaded = [k \in SiteKeys |-> NotLoaded]
    /\ fsEnabled = {}
    /\ fsRaised = "none"
    /\ fsHist = NoHistory

HlIdle ==
    /\ hlPc = "idle"
    /\ hlResult = TorrentResult(<<>>, 0, 0, 0, "none", None, "None")
    /\ hlHealth = "dead"
    /\ hlPrev = [seeders |-> 0, health |-> "dead"]

LaterIdle == DyIdle /\ FsIdle /\ HlIdle

\* the components that no specification of the search runs
RestIdle == SortIdle /\ UiIdle /\ CfgIdle /\ GmIdle /\ ScIdle /\ AtIdle /\ AnIdle /\ VlIdle
            /\ LaterIdle

\* the sources are not searched
BackingIdle == backing = [i \in SourceIdx |-> [raises |-> FALSE, results |-> <<>>]]

(***************************************************************************)
(* Blocking search: SearchOrchestrator.search_sync and the CLI's           *)
(* search_all.  Both submit every source to a pool, take the futures'      *)
(* results, sort and slice; search_sync takes them in registry order,      *)
(* search_all as they complete.                                            *)
(***************************************************************************)
SyncIdle ==
    /\ syEntry = "search_sync"
    /\ syPc = "idle"
    /\ syTask = [i \in SourceIdx |-> "none"]
    /\ syGot = {}
    /\ syAll = <<>>
    /\ syRet = <<>>
    /\ syLimit = DefaultLimit
    /\ sySort = DefaultSort

\* the call: every source's search is submitted to the pool
SyncStarted(entry, limit, sort_by) ==
    /\ syEntry = entry
    /\ syPc = "collect"
    /\ syTask = [i \in SourceIdx |-> "running"]
    /\ syGot = {}
    /\ syAll = <<>>
    /\ syRet = <<>>
    /\ syLimit = limit
    /\ sySort = sort_by

\* a pool thread finishes source i's search
SyncTaskFinish(i) ==
    /\ syTask[i] = "running"
    /\ syTask' = [syTask EXCEPT ![i] = IF backing[i].raises THEN "raised" ELSE "returned"]
    /\ UNCHANGED exceptSync
    /\ UNCHANGED <<backing, syEntry, syPc, syGot, syAll, syRet, syLimit, sySort>>

\* an exception of one source wipes what was gathered so far
CollectOneAborting(all, outcome) ==
    IF outcome.raises THEN <<>> ELSE all \o outcome.results

\* try: all_results.extend(future.result()) except Exception: pass
CollectOne(all, outcome) ==
    IF outcome.raises THEN all ELSE all \o outcome.results

\* a search_sync that takes the futures as they complete
SyncCollectAsCompleted ==
    /\ syEntry = "search_sync"
    /\ syPc = "collect"
    /\ \E i \in SourceIdx \ syGot :
          /\ syTask[i] \in {"returned", "raised"}
          /\ syAll' = CollectOne(syAll, backing[i])
          /\ syGot' = syGot \cup {i}
    /\ UNCHANGED exceptSync
    /\ UNCHANGED <<backing, syEntry, syPc, syTask, syRet, syLimit, sySort>>

\* search_sync, one turn of "for future in futures": futures is a dict filled
\* in registry order, and future.result() blocks until that future is done
SyncCollect ==
    /\ syEntry = "search_sync"
    /\ syPc = "collect"
    /\ syGot # SourceIdx
    /\ LET i == CHOOSE k \in SourceIdx \ syGot : \A j \in SourceIdx \ syGot : k <= j
       IN  /\ syTask[i] \in {"returned", "raised"}
           /\ syAll' = CollectOne(syAll, backing[i])
           /\ syGot' = syGot \cup {i}
    /\ UNCHANGED exceptSync
    /\ UNCHANGED <<backing, syEntry, syPc, syTask, syRet, syLimit, sySort>>

\* search_all, one turn of "for future in as_completed(futures)": any future
\* that is done and not yet taken
AllCollect(i) ==
    /\ syEntry = "search_all"
    /\ syPc = "collect"
    /\ i \notin syGot
    /\ syTask[i] \in {"returned", "raised"}
    /\ syAll' = CollectOne(syAll, backing[i])
    /\ syGot' = syGot \cup {i}
    /\ UNCHANGED exceptSync
    /\ UNCHANGED <<backing, syEntry, syPc, syTask, syRet, syLimit, sySort>>

\* search_all sorts in place: by size, or else by seeders, both descending
SortAll(results, sort_by) ==
    IF sort_by = "size" THEN SortedReverse(results, "size")
    ELSE SortedReverse(results, "seeders")

\* return self._sort_results(all_results, sort_by)[:limit]
SyncReturn ==
    /\ syEntry = "search_sync"
    /\ syPc = "collect"
    /\ syGot = SourceIdx
    /\ syRet' = PySliceTo(SortResults(syAll, sySort), syLimit)
    /\ syPc' = "done"
    /\ UNCHANGED exceptSync
    /\ UNCHANGED <<backing, syEntry, syTask, syGot, syAll, syLimit, sySort>>

\* all_results.sort(...); return all_results[:limit]
AllReturn ==
    /\ syEntry = "search_all"
    /\ syPc = "collect"
    /\ syGot = SourceIdx
    /\ syRet' = PySliceTo(SortAll(syAll, sySort), syLimit)
    /\ syPc' = "done"
    /\ UNCHANGED exceptSync
    /\ UNCHANGED <<backing, syEntry, syTask, syGot, syAll, syLimit, sySort>>

InitSync ==
    /\ backing \in SmallBackings
    /\ StreamIdle
    /\ RestIdle
    /\ \E entry \in {"search_sync", "search_all"}, limit \in Limits, sort_by \in SortArgs :
          SyncStarted(entry, limit, sort_by)

NextSync ==
    \/ \E i \in SourceIdx : SyncTaskFinish(i)
    \/ SyncCollect
    \/ \E i \in SourceIdx : AllCollect(i)
    \/ SyncReturn
    \/ AllReturn

SpecSync == InitSync /\ [][NextSync]_vars

\* the outputs of the sources in S that did not fail, concatenated in registry order
RECURSIVE ConcatSurvivors(_, _, _)
ConcatSurvivors(b, S, n) ==
    IF n = 0 THEN <<>>
    ELSE ConcatSurvivors(b, S, n - 1) \o
         (IF n \in S /\ ~b[n].raises THEN b[n].results ELSE <<>>)

\* C4 (as claimed): a blocking search returns at most max(limit, 0) results,
\* for every limit, 0 and negative limits included.
C4_LimitRespected ==
    syPc = "done" => Len(syRet) <= Max(syLimit, 0)

\* C5: at every point of the collecting loop, all_results holds exactly the
\* outputs (as a multiset) of the sources taken so far that did not fail; a
\* source that raised adds nothing and removes nothing.
C5_AggregateIsSurvivors ==
    syPc \in {"collect", "done"} =>
        SeqToBag(syAll) = SeqToBag(ConcatSurvivors(backing, syGot, NumSources))

\* C5 witness: search_sync has taken every future; one source raised and a
\* source before it and one after it returned results.
C5_Witness ==
    /\ syEntry = "search_sync"
    /\ syGot = SourceIdx
    /\ backing[2].raises
    /\ ~backing[1].raises /\ backing[1].results # <<>>
    /\ ~backing[3].raises /\ backing[3].results # <<>>

(***************************************************************************)
(* Streaming search: search_streaming_iter (an async generator fed by a    *)
(* queue) and search_streaming (a callback).  The tasks run on one event   *)
(* loop: what a task does between two awaits is one step.                  *)
(***************************************************************************)
SearchUpdate(source, status, results) ==
    [source |-> source, status |-> status, results |-> results]

\* a "done" update that drops the results it should carry
TerminalUpdateEmpty(i) ==
    IF backing[i].raises THEN SearchUpdate(Sources[i], "error", <<>>)
    ELSE SearchUpdate(Sources[i], "done", <<>>)

\* the update search_source builds when source i's search is over
TerminalUpdate(i) ==
    IF backing[i].raises THEN SearchUpdate(Sources[i], "error", <<>>)
    ELSE SearchUpdate(Sources[i], "done", backing[i].results)

IsTerminal(u) == u.status \in {"done", "error"}

\* the call of an async generator runs nothing: the body starts at the first pull
IterStarted ==
    /\ stEntry = "iter"
    /\ stPc = "loading"
    /\ stLoad = 1
    /\ stTask = [i \in SourceIdx |-> "none"]
    /\ stQueue = <<>>
    /\ stCompleted = 0
    /\ stAll = <<>>
    /\ stEvents = <<>>

\* for source in self.sources: yield SearchUpdate(status="loading")
IterYieldLoading ==
    /\ stEntry = "iter"
    /\ stPc = "loading"
    /\ stLoad <= NumSources
    /\ stEvents' = Append(stEvents, SearchUpdate(Sources[stLoad], "loading", <<>>))
    /\ stLoad' = stLoad + 1
    /\ UNCHANGED exceptStream
    /\ UNCHANGED <<backing, stEntry, stPc, stTask, stQueue, stCompleted, stAll>>

\* tasks = [asyncio.create_task(search_source(s)) for s in self.sources]
IterCreateTasks ==
    /\ stEntry = "iter"
    /\ stPc = "loading"
    /\ stLoad = NumSources + 1
    /\ stTask' = [i \in SourceIdx |-> "running"]
    /\ stPc' = "consume"
    /\ UNCHANGED exceptStream
    /\ UNCHANGED <<backing, stEntry, stLoad, stQueue, stCompleted, stAll, stEvents>>

\* search_source: the executor's search is over, its update is put on the
\* (unbounded) queue and the task ends
IterTaskFinish(i) ==
    /\ stEntry = "iter"
    /\ stTask[i] = "running"
    /\ stQueue' = Append(stQueue, TerminalUpdate(i))
    /\ stTask' = [stTask EXCEPT ![i] = "done"]
    /\ UNCHANGED exceptStream
    /\ UNCHANGED <<backing, stEntry, stPc, stLoad, stCompleted, stAll, stEvents>>

\* a loop that stops one update short
LoopContinuesShort(completed) == completed < NumSources - 1

\* while completed < len(self.sources)
LoopContinues(completed) == completed < NumSources

\* update = await queue.get(); if update: completed += 1; yield update
\* (a SearchUpdate is a dataclass instance and always true)
IterConsume ==
    /\ stEntry = "iter"
    /\ stPc = "consume"
    /\ LoopContinues(stCompleted)
    /\ stQueue # <<>>
    /\ stQueue' = Tail(stQueue)
    /\ stCompleted' = stCompleted + 1
    /\ stEvents' = Append(stEvents, Head(stQueue))
    /\ UNCHANGED exceptStream
    /\ UNCHANGED <<backing, stEntry, stPc, stLoad, stTask, stAll>>

IterLoopExit ==
    /\ stEntry = "iter"
    /\ stPc = "consume"
    /\ ~LoopContinues(stCompleted)
    /\ stPc' = "gather"
    /\ UNCHANGED exceptStream
    /\ UNCHANGED <<backing, stEntry, stLoad, stTask, stQueue, stCompleted, stAll, stEvents>>

\* await asyncio.gather(*tasks), then the generator is exhausted
IterGather ==
    /\ stEntry = "iter"
    /\ stPc = "gather"
    /\ \A i \in SourceIdx : stTask[i] = "done"
    /\ stPc' = "end"
    /\ UNCHANGED exceptStream
    /\ UNCHANGED <<backing, stEntry, stLoad, stTask, stQueue, stCompleted, stAll, stEvents>>

IterSteps ==
    \/ IterYieldLoading
    \/ IterCreateTasks
    \/ IterConsume
    \/ IterLoopExit
    \/ IterGather

NextIter ==
    \/ IterSteps
    \/ \E i \in SourceIdx : IterTaskFinish(i)

CallbackStarted ==
    /\ stEntry = "callback"
    /\ stPc = "loading"
    /\ stLoad = 1
    /\ stTask = [i \in SourceIdx |-> "none"]
    /\ stQueue = <<>>
    /\ stCompleted = 0
    /\ stAll = <<>>
    /\ stEvents = <<>>

\* for source in self.sources: callback(SearchUpdate(status="loading")); an
\* exception of the callback leaves search_streaming before any task exists
CbLoading(cbRaises) ==
    /\ stEntry = "callback"
    /\ stPc = "loading"
    /\ stLoad <= NumSources
    /\ stEvents' = Append(stEvents, SearchUpdate(Sources[stLoad], "loading", <<>>))
    /\ IF cbRaises
       THEN stPc' = "raised" /\ stLoad' = stLoad
       ELSE stPc' = stPc /\ stLoad' = stLoad + 1
    /\ UNCHANGED exceptStream
    /\ UNCHANGED <<backing, stEntry, stTask, stQueue, stCompleted, stAll>>

\* asyncio.gather(*[search_source(s) ...]) wraps every coroutine in a task
CbCreateTasks ==
    /\ stEntry = "callback"
    /\ stPc = "loading"
    /\ stLoad = NumSources + 1
    /\ stTask' = [i \in SourceIdx |-> "running"]
    /\ stPc' = "gather"
    /\ UNCHANGED exceptStream
    /\ UNCHANGED <<backing, stEntry, stLoad, stQueue, stCompleted, stAll, stEvents>>

\* search_source of search_streaming once the executor's search is over.  The
\* callback runs inside the try block: when it raises on the "done" update the
\* except branch calls it again with an "error" update; cbRaises1 and cbRaises2
\* say whether the first and the second call of the callback raise.
CbTaskFinish(i, cbRaises1, cbRaises2) ==
    /\ stEntry = "callback"
    /\ stTask[i] = "running"
    /\ IF backing[i].raises
       THEN /\ stAll' = stAll
            /\ stEvents' = Append(stEvents, SearchUpdate(Sources[i], "error", <<>>))
            /\ stTask' = [stTask EXCEPT ![i] = IF cbRaises1 THEN "failed" ELSE "done"]
       ELSE /\ stAll' = stAll \o backing[i].results
            /\ IF cbRaises1
               THEN /\ stEvents' = stEvents \o
                           <<SearchUpdate(Sources[i], "done", backing[i].results),
                             SearchUpdate(Sources[i], "error", <<>>)>>
                    /\ stTask' = [stTask EXCEPT ![i] = IF cbRaises2 THEN "failed" ELSE "done"]
               ELSE /\ stEvents' = Append(stEvents,
                           SearchUpdate(Sources[i], "done", backing[i].results))
                    /\ stTask' = [stTask EXCEPT ![i] = "done"]
    /\ UNCHANGED exceptStream
    /\ UNCHANGED <<backing, stEntry, stPc, stLoad, stQueue, stCompleted>>

\* gather hands the first exception of a task to search_streaming at once; the
\* other tasks are not cancelled and go on
CbGatherRaise ==
    /\ stEntry = "callback"
    /\ stPc = "gather"
    /\ \E i \in SourceIdx : stTask[i] = "failed"
    /\ stPc' = "raised"
    /\ UNCHANGED exceptStream
    /\ UNCHANGED <<backing, stEntry, stLoad, stTask, stQueue, stCompleted, stAll, stEvents>>

\* return all_results
CbReturn ==
    /\ stEntry = "callback"
    /\ stPc = "gather"
    /\ \A i \in SourceIdx : stTask[i] = "done"
    /\ stPc' = "returned"
    /\ UNCHANGED exceptStream
    /\ UNCHANGED <<backing, stEntry, stLoad, stTask, stQueue, stCompleted, stAll, stEvents>>

NextCallback ==
    \/ \E r \in BOOLEAN : CbLoading(r)
    \/ CbCreateTasks
    \/ \E i \in SourceIdx, r1 \in BOOLEAN, r2 \in BOOLEAN : CbTaskFinish(i, r1, r2)
    \/ CbGatherRaise
    \/ CbReturn

InitStream ==
    /\ backing \in SmallBackings
    /\ SyncIdle
    /\ RestIdle
    /\ IterStarted \/ CallbackStarted

NextStream ==
    \/ NextIter
    \/ NextCallback

SpecStream == InitStream /\ [][NextStream]_vars

InitIter ==
    /\ backing \in SmallBackings
    /\ SyncIdle
    /\ RestIdle
    /\ IterStarted

\* the consumer keeps pulling, the event loop keeps running the generator, and
\* every source's search returns or raises
FairIter ==
    /\ InitIter
    /\ [][NextIter]_vars
    /\ WF_vars(IterSteps)
    /\ \A i \in SourceIdx : WF_vars(IterTaskFinish(i))

\* the number of updates of source s in the consumer's stream with a status in S
CountEvents(s, S) ==
    Cardinality({k \in 1..Len(stEvents) : stEvents[k].source = s /\ stEvents[k].status \in S})

\* the iterator is exhausted; every task of the callback variant is over
StreamOver ==
    IF stEntry = "iter" THEN stPc = "end"
    ELSE \A i \in SourceIdx : stTask[i] \in {"done", "failed"}

\* C1 (as claimed): in both streaming variants a source never gets a terminal
\* update before its loading update, never gets two terminal updates, and has
\* exactly one once the stream is over; also when the callback raises.
C1_ExactlyOneTerminal ==
    \A i \in SourceIdx :
        LET s == Sources[i]
        IN  /\ CountEvents(s, {"loading"}) <= 1
            /\ CountEvents(s, {"done", "error"}) <= CountEvents(s, {"loading"})
            /\ StreamOver => CountEvents(s, {"done", "error"}) = 1

\* C1 restricted to the iterator variant, where it holds
C1_IterExactlyOneTerminal ==
    stEntry = "iter" => C1_ExactlyOneTerminal

IterEndState ==
    /\ stCompleted = NumSources
    /\ Cardinality({k \in 1..Len(stEvents) : IsTerminal(stEvents[k])}) = NumSources
    /\ \A i \in SourceIdx : stTask[i] = "done"
    /\ stQueue = <<>>

\* C2: the iterator ends only after it has consumed exactly len(sources)
\* terminal updates and every task is over, and under the fairness of FairIter
\* it does end.
C2_IterEnds ==
    /\ [](stPc = "end" => IterEndState)
    /\ <>(stPc = "end")

\* C2 witness: the stream has ended with one source failed and one succeeded
C2_Witness ==
    /\ stEntry = "iter"
    /\ stPc = "end"
    /\ backing[1].raises
    /\ ~backing[2].raises

(***************************************************************************)
(* The two modes over the same backing data: search_sync is called with    *)
(* its default arguments and, once it has returned, the same query is      *)
(* streamed through search_streaming_iter.                                 *)
(***************************************************************************)
InitEquiv ==
    /\ backing \in Backings
    /\ SyncStarted("search_sync", DefaultLimit, DefaultSort)
    /\ StreamIdle
    /\ RestIdle

\* the first pull of the iterator
EquivStartIter ==
    /\ syPc = "done"
    /\ stPc = "idle"
    /\ stEntry' = "iter"
    /\ stPc' = "loading"
    /\ UNCHANGED exceptStream
    /\ UNCHANGED <<backing, stLoad, stTask, stQueue, stCompleted, stAll, stEvents>>

NextEquiv ==
    \/ \E i \in SourceIdx : SyncTaskFinish(i)
    \/ SyncCollect
    \/ SyncReturn
    \/ EquivStartIter
    \/ NextIter

SpecEquiv == InitEquiv /\ [][NextEquiv]_vars

\* the results carried by the "done" updates of the stream, concatenated
RECURSIVE DoneResults(_)
DoneResults(events) ==
    IF events = <<>> THEN <<>>
    ELSE (IF Head(events).status = "done" THEN Head(events).results ELSE <<>>)
         \o DoneResults(Tail(events))

\* C6 (as claimed): once the stream has ended, the multiset of the results of
\* its done updates equals the list search_sync returned with default arguments.
C6_StreamEqualsBlocking ==
    (syPc = "done" /\ stPc = "end") =>
        SeqToBag(DoneResults(stEvents)) = SeqToBag(syRet)

\* C6 (amended): search_sync's list is a sub-multiset of the streamed results
\* holding min(50, total) of them; the two are equal when the sources return at
\* most 50 results in total.
C6_StreamEqualsBlockingUpToLimit ==
    (syPc = "done" /\ stPc = "end") =>
        LET streamed == DoneResults(stEvents)
        IN  /\ SeqToBag(syRet) \sqsubseteq SeqToBag(streamed)
            /\ Len(syRet) = Min(DefaultLimit, Len(streamed))
            /\ Len(streamed) <= DefaultLimit => SeqToBag(streamed) = SeqToBag(syRet)

\* C6 witness: both modes are over, a source failed, the others returned
\* results, fewer than the limit in total
C6_Witness ==
    /\ syPc = "done"
    /\ stPc = "end"
    /\ backing[1].raises
    /\ Len(backing[2].results) = 2
    /\ Len(backing[3].results) = 1
    /\ Len(syRet) = 3

(***************************************************************************)
(* _sort_results as a function of its arguments.                           *)
(***************************************************************************)
SortTitles == {<<97>>, <<65>>, <<97, 66>>}

\* results whose keys tie: titles "a", "A", "aB", seeders and sizes 0 and 1
SortPool ==
    {TorrentResult(t, se, 0, sz, "TPB", None, "None") :
        t \in SortTitles, se \in 0..1, sz \in 0..1}

SortInputs == UNION {[1..n -> SortPool] : n \in 0..MaxSortLen}

InitSort ==
    /\ BackingIdle
    /\ SyncIdle /\ StreamIdle /\ UiIdle /\ CfgIdle /\ GmIdle /\ ScIdle
    /\ AtIdle /\ AnIdle /\ VlIdle /\ LaterIdle
    /\ soPc = "call"
    /\ soIn \in SortInputs
    /\ soMode \in SortArgs
    /\ soOut = <<>>

SortCall ==
    /\ soPc = "call"
    /\ soOut' = SortResults(soIn, soMode)
    /\ soPc' = "returned"
    /\ UNCHANGED exceptSort
    /\ UNCHANGED <<soIn, soMode>>

NextSort == SortCall

SpecSort == InitSort /\ [][NextSort]_vars

\* the sort key of a result: seeders and size count downwards
SortKey(mode, r) ==
    IF mode = "size" THEN <<0 - r.size>>
    ELSE IF mode = "name" THEN LowerStr(r.title)
    ELSE <<0 - r.seeders>>

\* the elements of s whose key is k, in the order of s
WithKey(s, mode, k) ==
    LET Same(r) == SortKey(mode, r) = k
    IN  SelectSeq(s, Same)

\* C7: _sort_results returns a permutation of its input, ordered by seeders
\* descending, size descending or lower-cased title ascending, and stable:
\* results with equal keys keep the relative order of the input.
C7_SortStable ==
    soPc = "returned" =>
        /\ SeqToBag(soOut) = SeqToBag(soIn)
        /\ \A i \in 1..Len(soOut) : \A j \in 1..Len(soOut) :
              i < j => ~LexLess(SortKey(soMode, soOut[j]), SortKey(soMode, soOut[i]))
        /\ \A i \in 1..Len(soIn) :
              LET k == SortKey(soMode, soIn[i])
              IN  WithKey(soOut, soMode, k) = WithKey(soIn, soMode, k)

\* C7 witness: a descending sort moved an element, and two different results
\* with the same key were among its input
C7_Witness ==
    /\ soPc = "returned"
    /\ soMode = "size"
    /\ soOut # soIn
    /\ \E i \in 1..Len(soIn) : \E j \in 1..Len(soIn) :
          i < j /\ soIn[i] # soIn[j] /\ soIn[i].size = soIn[j].size

(***************************************************************************)
(* The TUI main screen (ui/screens/main.py) and the status widgets of the  *)
(* results list (ui/widgets/results.py).  Every search starts one thread   *)
(* worker per source; a worker goes pending, running, success and posts a  *)
(* Worker.StateChanged message for the last two, which the screen handles  *)
(* one at a time on its event loop.  _search_source catches every          *)
(* exception and no code cancels a worker, so workers do not fail.         *)
(***************************************************************************)
Queries == {"", "ubuntu"}

StateChanged(g, i, state) == [gen |-> g, src |-> i, state |-> state]

\* _start_search: forget the results, show every source as loading, start
\* one worker per source
StartSearch(query) ==
    /\ uiGen < MaxSearches
    /\ uiGen' = uiGen + 1
    /\ uiQuery' = query
    /\ uiSrcRes' = [i \in SourceIdx |-> 0]
    /\ uiStatus' = [i \in SourceIdx |-> "loading"]
    /\ uiStatusBy' = [i \in SourceIdx |-> 0]
    /\ uiWorker' = [uiWorker EXCEPT ![uiGen + 1] = [i \in SourceIdx |-> "pending"]]
    /\ UNCHANGED <<uiInbox, uiFinish>>
    /\ UNCHANGED exceptUi

\* on_input_submitted: an empty query is ignored
Submit(query) ==
    IF query # ""
    THEN StartSearch(query)
    ELSE uiGen < MaxSearches /\ UNCHANGED vars

\* action_refresh
Refresh ==
    /\ uiQuery # ""
    /\ StartSearch(uiQuery)

WorkerStart(g, i) ==
    /\ uiWorker[g][i] = "pending"
    /\ Len(uiInbox) < MaxInbox
    /\ uiWorker' = [uiWorker EXCEPT ![g][i] = "running"]
    /\ uiInbox' = Append(uiInbox, StateChanged(g, i, "RUNNING"))
    /\ UNCHANGED <<uiGen, uiQuery, uiSrcRes, uiStatus, uiStatusBy, uiFinish>>
    /\ UNCHANGED exceptUi

WorkerFinish(g, i) ==
    /\ uiWorker[g][i] = "running"
    /\ Len(uiInbox) < MaxInbox
    /\ uiWorker' = [uiWorker EXCEPT ![g][i] = "success"]
    /\ uiInbox' = Append(uiInbox, StateChanged(g, i, "SUCCESS"))
    /\ UNCHANGED <<uiGen, uiQuery, uiSrcRes, uiStatus, uiStatusBy, uiFinish>>
    /\ UNCHANGED exceptUi

\* ResultsList.update_source, for the search g whose worker sent the event:
\* only a source that has a status widget is updated
UpdateSource(status, by, i, new, g) ==
    IF status[i] # "none"
    THEN [status |-> [status EXCEPT ![i] = new],
          by     |-> [by EXCEPT ![i] = IF status[i] # new THEN g ELSE by[i]]]
    ELSE [status |-> status, by |-> by]

\* _check_search_complete: every source has an entry in _source_results
SearchComplete(srcRes) == \A i \in SourceIdx : srcRes[i] # 0

\* on_worker_state_changed, with _check_search_complete and _finish_search
HandleStateChanged ==
    /\ uiInbox # <<>>
    /\ LET msg == Head(uiInbox)
       IN  /\ uiInbox' = Tail(uiInbox)
           /\ IF msg.state = "RUNNING"
              THEN LET upd == UpdateSource(uiStatus, uiStatusBy, msg.src, "loading", msg.gen)
                   IN  /\ uiStatus' = upd.status
                       /\ uiStatusBy' = upd.by
                       /\ UNCHANGED <<uiSrcRes, uiFinish>>
              ELSE LET srcRes == [uiSrcRes EXCEPT ![msg.src] = msg.gen]
                       upd == UpdateSource(uiStatus, uiStatusBy, msg.src, "done", msg.gen)
                   IN  /\ uiSrcRes' = srcRes
                       /\ IF SearchComplete(srcRes)
                          THEN /\ uiStatus' = [i \in SourceIdx |-> "none"]
                               /\ uiStatusBy' = upd.by
                               /\ uiFinish' = [shown |-> uiGen, by |-> msg.gen,
                                               results |-> srcRes]
                          ELSE /\ uiStatus' = upd.status
                               /\ uiStatusBy' = upd.by
                               /\ UNCHANGED uiFinish
    /\ UNCHANGED <<uiGen, uiQuery, uiWorker>>
    /\ UNCHANGED exceptUi

InitUi ==
    /\ BackingIdle
    /\ SyncIdle /\ StreamIdle /\ SortIdle /\ UiIdle /\ CfgIdle /\ GmIdle /\ ScIdle
    /\ AtIdle /\ AnIdle /\ VlIdle /\ LaterIdle

NextUi ==
    \/ \E query \in Queries : Submit(query)
    \/ Refresh
    \/ \E g \in SearchIds : \E i \in SourceIdx : WorkerStart(g, i)
    \/ \E g \in SearchIds : \E i \in SourceIdx : WorkerFinish(g, i)
    \/ HandleStateChanged

SpecUi == InitUi /\ [][NextUi]_vars

\* C3: once a new search has started, the events of the workers of an earlier
\* search are discarded: none of them adds an entry to _source_results of the
\* new search, changes the status shown for a source, or runs _finish_search
\* for the new search.
C3_StaleEventsDiscarded ==
    /\ \A i \in SourceIdx : uiSrcRes[i] \in {0, uiGen}
    /\ \A i \in SourceIdx : uiStatusBy[i] \in {0, uiGen}
    /\ uiFinish.shown = uiGen => uiFinish.by = uiGen

(***************************************************************************)
(* The configuration store (core/config/manager.py) and the source         *)
(* registry of the orchestrator (core/search.py, __init__).  A site is     *)
(* saved under a key; its DynamicSource would carry the site's name.       *)
(***************************************************************************)
SiteName(k) == "site_" \o ToString(k)

\* ConfigManager.load_enabled: the keys of the enabled sites
LoadEnabled == {k \in SiteKeys : cfgExists /\ cfgSites[k] = "enabled"}

\* ConfigManager.save
CfgSave(k, enabled) ==
    /\ cfgExists' = TRUE
    /\ cfgSites' = [cfgSites EXCEPT ![k] = IF enabled THEN "enabled" ELSE "disabled"]
    /\ cfgRet' = "none"
    /\ UNCHANGED <<regSources, regSeen, regFanout, regDispatch>>
    /\ UNCHANGED exceptCfg

\* ConfigManager.remove
CfgRemove(k) ==
    /\ IF cfgExists /\ cfgSites[k] # "absent"
       THEN /\ cfgSites' = [cfgSites EXCEPT ![k] = "absent"]
            /\ cfgRet' = "True"
       ELSE /\ cfgRet' = "False"
            /\ UNCHANGED cfgSites
    /\ UNCHANGED <<cfgExists, regSources, regSeen, regFanout, regDispatch>>
    /\ UNCHANGED exceptCfg

\* ConfigManager.set_enabled
CfgSetEnabled(k, enabled) ==
    /\ IF cfgExists /\ cfgSites[k] # "absent"
       THEN /\ cfgSites' = [cfgSites EXCEPT ![k] = IF enabled THEN "enabled" ELSE "disabled"]
            /\ cfgRet' = "True"
       ELSE /\ cfgRet' = "False"
            /\ UNCHANGED cfgSites
    /\ UNCHANGED <<cfgExists, regSources, regSeen, regFanout, regDispatch>>
    /\ UNCHANGED exceptCfg

\* SearchOrchestrator.__init__: the three built-in sources; regSeen records
\* what load_enabled would have returned at that moment
OrchInit ==
    /\ regSources' = Sources
    /\ regSeen' = LoadEnabled
    /\ regFanout' = {}
    /\ regDispatch' = [asked |-> "none", via |-> "none"]
    /\ UNCHANGED <<cfgExists, cfgSites, cfgRet>>
    /\ UNCHANGED exceptCfg

\* the keys of _source_map
SourceMapKeys == {regSources[i] : i \in 1..Len(regSources)}

\* a search submits one task per element of self.sources
OrchFanout ==
    /\ regSources # <<>>
    /\ regFanout' = {regSources[i] : i \in 1..Len(regSources)}
    /\ UNCHANGED <<cfgExists, cfgSites, cfgRet, regSources, regSeen, regDispatch>>
    /\ UNCHANGED exceptCfg

\* get_magnet looks result.source up in _source_map
OrchDispatch(name) ==
    /\ regSources # <<>>
    /\ regDispatch' = [asked |-> name,
                        via   |-> IF name \in SourceMapKeys THEN name ELSE "fallback"]
    /\ UNCHANGED <<cfgExists, cfgSites, cfgRet, regSources, regSeen, regFanout>>
    /\ UNCHANGED exceptCfg

InitCfg ==
    /\ BackingIdle
    /\ SyncIdle /\ StreamIdle /\ SortIdle /\ UiIdle /\ CfgIdle /\ GmIdle /\ ScIdle
    /\ AtIdle /\ AnIdle /\ VlIdle /\ LaterIdle

NextCfg ==
    \/ \E k \in SiteKeys : \E enabled \in BOOLEAN : CfgSave(k, enabled)
    \/ \E k \in SiteKeys : CfgRemove(k)
    \/ \E k \in SiteKeys : \E enabled \in BOOLEAN : CfgSetEnabled(k, enabled)
    \/ OrchInit
    \/ OrchFanout
    \/ \E name \in SourceNames \cup {SiteName(k) : k \in SiteKeys} : OrchDispatch(name)

SpecCfg == InitCfg /\ [][NextCfg]_vars

\* C8: a constructed orchestrator registers the built-in sources and one
\* source for every site configuration that was enabled when it was
\* constructed; its searches go to those sites too and get_magnet for a
\* result of such a site is dispatched to the site's source.
C8_RegistryHoldsEnabledSites ==
    regSources # <<>> =>
        /\ SourceMapKeys = SourceNames \cup {SiteName(k) : k \in regSeen}
        /\ regFanout # {} => \A k \in regSeen : SiteName(k) \in regFanout
        /\ \A k \in regSeen :
              regDispatch.asked = SiteName(k) => regDispatch.via = SiteName(k)

(***************************************************************************)
(* get_magnet: the orchestrator's dispatch (core/search.py), the default   *)
(* Source.get_magnet and add_trackers (core/sources/base.py) and the       *)
(* fetching X1337Source.get_magnet (core/sources/x1337.py).  A magnet URI  *)
(* is the sequence of its parameters; "&tr=" occurs in it exactly when one *)
(* of them has separator "&" and key "tr".                                 *)
(***************************************************************************)
TRACKERS ==
    <<"udp://tracker.opentrackr.org:1337/announce",
      "udp://open.stealth.si:80/announce",
      "udp://tracker.torrent.eu.org:451/announce",
      "udp://tracker.bittor.pw:1337/announce",
      "udp://public.popcorn-tracker.org:6969/announce",
      "udp://tracker.dler.org:6969/announce",
      "udp://exodus.desync.com:6969/announce",
      "udp://open.demonii.com:1337/announce">>

\* urllib.parse.quote(t, safe=''): the percent-encoded form of t
Quote(t) == "quote(" \o t \o ")"

\* a str or None in a condition: None and "" are false
Truthy(m) == m # None /\ m # <<>>

\* "&tr=" in magnet
HasTrackerParam(m) == \E i \in 1..Len(m) : m[i].sep = "&" /\ m[i].key = "tr"

\* a decoration that does not look for a tracker parameter
add_trackersAlways(magnet) ==
    IF ~Truthy(magnet)
    THEN magnet
    ELSE magnet \o [i \in 1..Len(TRACKERS) |-> Token("&", "tr", Quote(TRACKERS[i]))]

add_trackers(magnet) ==
    IF ~Truthy(magnet) \/ HasTrackerParam(magnet)
    THEN magnet
    ELSE magnet \o [i \in 1..Len(TRACKERS) |-> Token("&", "tr", Quote(TRACKERS[i]))]

\* what a get_magnet hands back: its return value, the Result as it leaves
\* it, and the fetches it made
MagnetAnswer(ret, result, fetches) == [ret |-> ret, result |-> result, fetches |-> fetches]

\* Source.get_magnet, which PirateBaySource and RarbgSource inherit
BaseGetMagnet(result) ==
    IF Truthy(result.magnet_link)
    THEN MagnetAnswer(add_trackers(result.magnet_link), result, 0)
    ELSE MagnetAnswer(None, result, 0)

\* the detail page of 1337x: the fetch fails, the page has no magnet anchor,
\* or it has one with this href
PlainMagnet(h) == <<Token("?", "xt", h)>>
TrackedMagnet(h) == <<Token("?", "xt", h), Token("&", "tr", "udp://t.example/announce")>>
DetailPages == {None, <<>>, PlainMagnet("h2"), TrackedMagnet("h2")}

\* a get_magnet that fetches the detail page whenever the Result has one
X1337GetMagnetRefetch(result, page) ==
    IF result.detail_url \in {"None", ""}
    THEN MagnetAnswer(IF Truthy(result.magnet_link) THEN add_trackers(result.magnet_link)
                      ELSE None, result, 0)
    ELSE IF Truthy(page)
    THEN MagnetAnswer(add_trackers(page), [result EXCEPT !.magnet_link = page], 1)
    ELSE MagnetAnswer(None, result, 1)

\* X1337Source.get_magnet; page = None: the fetch raises, <<>>: no anchor
X1337GetMagnet(result, page) ==
    IF Truthy(result.magnet_link)
    THEN MagnetAnswer(add_trackers(result.magnet_link), result, 0)
    ELSE IF result.detail_url \in {"None", ""}
    THEN MagnetAnswer(None, result, 0)
    ELSE IF Truthy(page)
    THEN MagnetAnswer(add_trackers(page), [result EXCEPT !.magnet_link = page], 1)
    ELSE MagnetAnswer(None, result, 1)

\* what _extract_size finds in the text of the detail page: nothing, a size
\* that parse_size reads, or (with a configured size_regex that lets it
\* through) a text such as "1.2.3 GB" on which parse_size raises
SizeTexts(source) ==
    IF source = "Audiostorrent" THEN {"none", "ok"} ELSE {"none", "ok", "bad"}

PageSize == 7

\* AudiostorrentSource.get_magnet and DynamicSource.get_magnet: the magnet is
\* stored on the Result before the size is looked for, and an exception of
\* the size extraction is caught like a failed fetch
FetchingGetMagnet(result, page, sizeText) ==
    IF Truthy(result.magnet_link)
    THEN MagnetAnswer(add_trackers(result.magnet_link), result, 0)
    ELSE IF result.detail_url \in {"None", ""}
    THEN MagnetAnswer(None, result, 0)
    ELSE IF ~Truthy(page)
    THEN MagnetAnswer(None, result, 1)
    ELSE LET cached == [result EXCEPT !.magnet_link = page]
         IN  IF result.size # 0 \/ sizeText = "none"
             THEN MagnetAnswer(add_trackers(page), cached, 1)
             ELSE IF sizeText = "ok"
             THEN MagnetAnswer(add_trackers(page), [cached EXCEPT !.size = PageSize], 1)
             ELSE MagnetAnswer(None, cached, 1)

\* _source_map.get(result.source)
SourceMapGetFirst(name) == Sources[1]

SourceMapGet(name) == IF name \in SourceNames THEN name ELSE "fallback"

\* SearchOrchestrator.get_magnet
OrchGetMagnet(page) ==
    /\ gmPc \in {"ready", "called", "direct"}
    /\ gmCalls < MaxMagnetCalls
    /\ LET via == SourceMapGet(gmResult.source)
           ans == IF via = "1337x" THEN X1337GetMagnet(gmResult, page)
                  ELSE IF via # "fallback" THEN BaseGetMagnet(gmResult)
                  ELSE IF Truthy(gmResult.magnet_link)
                  THEN MagnetAnswer(add_trackers(gmResult.magnet_link), gmResult, 0)
                  ELSE MagnetAnswer(None, gmResult, 0)
       IN  /\ gmVia' = via
           /\ gmAnswer' = IF via = "fallback" THEN None ELSE ans.ret
           /\ gmRet' = ans.ret
           /\ gmResult' = ans.result
           /\ gmFetches' = ans.fetches
    /\ gmPage' = [magnet |-> page, size |-> "none"]
    /\ gmPre' = gmResult
    /\ gmCalls' = gmCalls + 1
    /\ gmPc' = "called"
    /\ UNCHANGED exceptGm

\* get_magnet called on the Source that produced the Result
SourceGetMagnet(page, sizeText) ==
    /\ gmPc \in {"ready", "called", "direct"}
    /\ gmCalls < MaxMagnetCalls
    /\ sizeText \in SizeTexts(gmResult.source)
    /\ LET ans == IF gmResult.source = "1337x" THEN X1337GetMagnet(gmResult, page)
                  ELSE IF gmResult.source \in SourceNames THEN BaseGetMagnet(gmResult)
                  ELSE FetchingGetMagnet(gmResult, page, sizeText)
       IN  /\ gmAnswer' = ans.ret
           /\ gmRet' = ans.ret
           /\ gmResult' = ans.result
           /\ gmFetches' = ans.fetches
    /\ gmPage' = [magnet |-> page, size |-> sizeText]
    /\ gmVia' = gmResult.source
    /\ gmPre' = gmResult
    /\ gmCalls' = gmCalls + 1
    /\ gmPc' = "direct"
    /\ UNCHANGED exceptGm

\* the Results get_magnet is called with: of a registered source, of the
\* unregistered AudiostorrentSource, or of a configured site
MagnetResults ==
    {TorrentResult(<<65>>, 1, 0, 0, s, m, d) :
        s \in SourceNames \cup {"Audiostorrent", SiteName(1)},
        m \in {None, <<>>, PlainMagnet("h1"), TrackedMagnet("h1")},
        d \in {"None", "", "/torrent/1"}}
    \cup {TorrentResult(<<65>>, 1, 0, 5, s, None, "/torrent/1") :
              s \in {"Audiostorrent", SiteName(1)}}

InitMagnet ==
    /\ BackingIdle
    /\ SyncIdle /\ StreamIdle /\ SortIdle /\ UiIdle /\ CfgIdle /\ ScIdle
    /\ AtIdle /\ AnIdle /\ VlIdle /\ LaterIdle
    /\ gmPc = "ready"
    /\ gmCalls = 0
    /\ gmResult \in MagnetResults
    /\ gmPre = NoResult
    /\ gmVia = "none"
    /\ gmAnswer = None
    /\ gmRet = None
    /\ gmFetches = 0
    /\ gmPage = [magnet |-> None, size |-> "none"]

NextMagnet ==
    \/ \E page \in DetailPages : OrchGetMagnet(page)
    \/ \E page \in DetailPages : \E sizeText \in {"none", "ok", "bad"} :
          SourceGetMagnet(page, sizeText)

SpecMagnet == InitMagnet /\ [][NextMagnet]_vars

\* C9: get_magnet of the orchestrator runs get_magnet of the registered
\* source named result.source and returns its answer; for any other source
\* name it fetches nothing, leaves the Result as it is, and returns the
\* Result's magnet with the tracker parameters appended (unchanged if it
\* already has one), or None when the Result has no magnet.
C9_DispatchOrFallback ==
    gmPc = "called" =>
        IF gmPre.source \in SourceNames
        THEN gmVia = gmPre.source /\ gmRet = gmAnswer
        ELSE /\ gmVia = "fallback"
             /\ gmFetches = 0
             /\ gmResult = gmPre
             /\ LET m == gmPre.magnet_link
                IN  gmRet =
                      IF m = None \/ m = <<>> THEN None
                      ELSE IF \E i \in 1..Len(m) : m[i].sep = "&" /\ m[i].key = "tr" THEN m
                      ELSE m \o [i \in 1..8 |-> Token("&", "tr", Quote(TRACKERS[i]))]

\* C9 witness: a Result of an unregistered source with an undecorated magnet
\* got the trackers appended
C9_Witness ==
    /\ gmPc = "called"
    /\ gmPre.source = "Audiostorrent"
    /\ gmPre.magnet_link = PlainMagnet("h1")
    /\ Len(gmRet) = 9

(***************************************************************************)
(* Source.search of the five implementations (core/sources).  Each fetches *)
(* a page inside one try block, loops over at most 30 items and returns    *)
(* its list results after an "except Exception: pass".  An item is "good"  *)
(* (a Result is appended), "skip" (the item is passed over: a missing      *)
(* title, too few columns, no info_hash), "bad" (extracting it raises:     *)
(* int() of a non-numeric field in PirateBaySource and RarbgSource, a      *)
(* title anchor without href in X1337Source, a size such as "1.2.3 GB" in  *)
(* parse_size for X1337Source and DynamicSource), or, for PirateBaySource, *)
(* "sentinel" (the id "0" entry that stands for no results).               *)
(***************************************************************************)
SourceKinds == {"Dynamic", "1337x", "TPB", "RARBG", "Audiostorrent"}

\* the items each implementation can meet
ItemKinds(kind) ==
    IF kind = "Audiostorrent" THEN {"good", "skip"}
    ELSE IF kind = "RARBG" THEN {"good", "bad"}
    ELSE IF kind = "TPB" THEN {"good", "skip", "bad", "sentinel"}
    ELSE {"good", "skip", "bad"}

\* the outcomes of the requests before the loop; RarbgSource returns early
\* when the token request brings no token
FetchOutcomes(kind) ==
    IF kind = "RARBG" THEN {"ok", "fail", "notoken"} ELSE {"ok", "fail"}

Pages(kind) ==
    UNION {[1..n -> ItemKinds(kind)] : n \in 0..MaxItems}

\* the try block up to the loop
SearchFetch ==
    /\ scPc = "fetch"
    /\ IF scFetch = "fail"
       THEN scErr' = TRUE /\ scPc' = "returned"
       ELSE IF scFetch = "notoken"
       THEN scErr' = FALSE /\ scPc' = "returned"
       ELSE IF scKind = "TPB" /\ (scItems = <<>> \/ scItems[1] = "sentinel")
       THEN scErr' = FALSE /\ scPc' = "returned"
       ELSE scErr' = FALSE /\ scPc' = "loop"
    /\ UNCHANGED <<scKind, scFetch, scItems, scIdx, scResults, scRaised>>
    /\ UNCHANGED exceptSc

\* one pass of the loop over items[:30]
SearchItem ==
    /\ scPc = "loop"
    /\ scIdx <= Len(PySliceTo(scItems, PerSourceCap))
    /\ LET item == scItems[scIdx]
       IN  IF item = "bad"
           THEN /\ scErr' = TRUE
                /\ scPc' = "returned"
                /\ UNCHANGED <<scIdx, scResults>>
           ELSE /\ scResults' =
                      IF item = "skip" THEN scResults
                      ELSE Append(scResults,
                                  TorrentResult(<<64 + scIdx>>, 0, 0, 0, scKind, None, "None"))
                /\ scIdx' = scIdx + 1
                /\ UNCHANGED <<scErr, scPc>>
    /\ UNCHANGED <<scKind, scFetch, scItems, scRaised>>
    /\ UNCHANGED exceptSc

\* the loop is over: return results
SearchReturn ==
    /\ scPc = "loop"
    /\ scIdx > Len(PySliceTo(scItems, PerSourceCap))
    /\ scPc' = "returned"
    /\ UNCHANGED <<scKind, scFetch, scItems, scIdx, scResults, scErr, scRaised>>
    /\ UNCHANGED exceptSc

InitSource ==
    /\ BackingIdle
    /\ SyncIdle /\ StreamIdle /\ SortIdle /\ UiIdle /\ CfgIdle /\ GmIdle
    /\ AtIdle /\ AnIdle /\ VlIdle /\ LaterIdle
    /\ scKind \in SourceKinds
    /\ scFetch \in FetchOutcomes(scKind)
    /\ scItems \in Pages(scKind)
    /\ scPc = "fetch"
    /\ scIdx = 1
    /\ scResults = <<>>
    /\ scErr = FALSE
    /\ scRaised = FALSE

NextSource == SearchFetch \/ SearchItem \/ SearchReturn

SpecSource == InitSource /\ [][NextSource]_vars

\* C10: search of every Source implementation never raises, and when a
\* transport or parse error happened at any point of the search, also after
\* items were extracted, it returns the empty sequence.
C10_ErrorYieldsEmpty ==
    scPc = "returned" => ~scRaised /\ (scErr => scResults = <<>>)

\* C11: every get_magnet call, through the orchestrator or on the Source,
\* makes at most one fetch; a call on a Result that already carries a magnet
\* makes no fetch, leaves the Result unchanged and returns that magnet with
\* the trackers (so all such calls return the same URI); and a call that
\* fetched and returned a magnet has stored it on the Result.
C11_GetMagnetIdempotent ==
    gmPc \in {"called", "direct"} =>
        /\ gmFetches <= 1
        /\ Truthy(gmPre.magnet_link) =>
              /\ gmFetches = 0
              /\ gmResult = gmPre
              /\ gmRet # None
              /\ gmRet \in {gmPre.magnet_link,
                            gmPre.magnet_link \o
                              [i \in 1..8 |-> Token("&", "tr", Quote(TRACKERS[i]))]}
        /\ (gmFetches = 1 /\ gmRet # None) =>
              /\ Truthy(gmResult.magnet_link)
              /\ ~Truthy(gmPre.magnet_link)

\* C11 witness: the second call on a Result whose magnet the first call
\* fetched and cached
C11_Witness ==
    /\ gmPc = "direct"
    /\ gmCalls = 2
    /\ gmPre.source = SiteName(1)
    /\ gmPre.magnet_link = PlainMagnet("h2")
    /\ gmPre.size = PageSize
    /\ gmFetches = 0
    /\ Len(gmRet) = 9

\* C27: DynamicSource.get_magnet on a Result without a magnet and with a
\* detail URL fetches once; when the page has a magnet it stores it on the
\* Result, returns it decorated with the trackers, and changes the size only
\* if it was 0.
C27_DynamicFetchCachesMagnet ==
    (/\ gmPc = "direct"
     /\ gmPre.source = SiteName(1)
     /\ ~Truthy(gmPre.magnet_link)
     /\ gmPre.detail_url \notin {"None", ""})
    => /\ gmFetches = 1
       /\ gmPre.size # 0 => gmResult.size = gmPre.size
       /\ Truthy(gmPage.magnet) =>
             /\ gmResult.magnet_link = gmPage.magnet
             /\ gmRet # None
             /\ gmRet \in {gmPage.magnet,
                           gmPage.magnet \o
                             [i \in 1..8 |-> Token("&", "tr", Quote(TRACKERS[i]))]}

\* C28: when get_magnet of DynamicSource or AudiostorrentSource returns no
\* magnet, the Result is what it was before the call.
C28_NoMagnetNoChange ==
    (/\ gmPc = "direct"
     /\ gmPre.source \in {"Audiostorrent", SiteName(1)}
     /\ gmRet = None)
    => gmResult = gmPre

(***************************************************************************)
(* add_trackers (core/sources/base.py) as a function of its argument: the  *)
(* magnets are all parameter sequences up to MaxParams, well-formed or     *)
(* not, with a tracker parameter in the first or in a later position.      *)
(***************************************************************************)
ParamPool ==
    {Token(sep, key, val) : sep \in {"?", "&"}, key \in {"xt", "tr", "dn"},
                            val \in {"h1", Quote(TRACKERS[1])}}

MagnetStrings == UNION {[1..n -> ParamPool] : n \in 0..MaxParams}

InitTrackers ==
    /\ BackingIdle
    /\ SyncIdle /\ StreamIdle /\ SortIdle /\ UiIdle /\ CfgIdle /\ GmIdle /\ ScIdle
    /\ AnIdle /\ VlIdle /\ LaterIdle
    /\ atPc = "call"
    /\ atIn \in MagnetStrings \cup {None}
    /\ atOut = <<>>
    /\ atTwice = <<>>

AddTrackersCall ==
    /\ atPc = "call"
    /\ atOut' = add_trackers(atIn)
    /\ atTwice' = add_trackers(add_trackers(atIn))
    /\ atPc' = "returned"
    /\ UNCHANGED atIn
    /\ UNCHANGED exceptAt

NextTrackers == AddTrackersCall

SpecTrackers == InitTrackers /\ [][NextTrackers]_vars

\* C12: add_trackers(add_trackers(m)) = add_trackers(m) for every magnet m,
\* the empty string included.
C12_AddTrackersIdempotent ==
    atPc = "returned" => atTwice = atOut

\* C12 witness: a magnet that the first application changed
C12_Witness ==
    /\ atPc = "returned"
    /\ atIn = <<Token("?", "xt", "h1")>>
    /\ Len(atOut) = 9
    /\ atTwice = atOut

\* C13: a magnet that has a tracker parameter anywhere in its query string,
\* first after "?" or later after "&", is returned unchanged; any other
\* magnet is returned with each tracker of the list appended once.
C13_NoOpOnAnyTrackerParam ==
    (atPc = "returned" /\ atIn # None /\ atIn # <<>>) =>
        IF \E i \in 1..Len(atIn) : atIn[i].key = "tr"
        THEN atOut = atIn
        ELSE atOut = atIn \o [i \in 1..8 |-> Token("&", "tr", Quote(TRACKERS[i]))]

(***************************************************************************)
(* The site analyzer (core/analyzer) as the add command drives it          *)
(* (main.py, cmd_add): analyze, and analyze_with_known_patterns when       *)
(* analyze did not succeed.  Confidences are in tenths.  The site has one  *)
(* results page, which every search URL that can be fetched returns; a     *)
(* validation fetches again, so it may fail on a page that has the items.  *)
(***************************************************************************)
SearchPattern(tpl, confidence) == [url_template |-> tpl, confidence |-> confidence]

ResultStructure(item, title, confidence) ==
    [result_item |-> item, title |-> title, confidence |-> confidence]

\* the forms of the homepage: none, one with a keyword-named input, one with
\* a single unnamed-keyword input followed by a keyword one, or one whose
\* template is the generic /?s=
Forms == {"none", "keyword", "single_keyword", "generic"}

FormPatterns(form) ==
    IF form = "keyword" THEN <<SearchPattern("/find?q=", 8)>>
    ELSE IF form = "single_keyword"
    THEN <<SearchPattern("/go?x=", 5), SearchPattern("/find?q=", 8)>>
    ELSE IF form = "generic" THEN <<SearchPattern("/?s=", 8)>>
    ELSE <<>>

common_patterns == <<"/?s=", "/?q=", "/search?q=", "/search/{query}", "/search?query=">>

detect_search_patterns(form) ==
    LET found == FormPatterns(form)
        NotFound(tpl) == \A i \in 1..Len(found) : found[i].url_template # tpl
        fresh == SelectSeq(common_patterns, NotFound)
    IN  SortedReverse(found \o [i \in 1..Len(fresh) |-> SearchPattern(fresh[i], 3)],
                      "confidence")

\* the articles detect_result_structure looks at
ProbedArticles == 2

\* the candidates of the four strategies, in the order they are appended
StructureCandidates(page) ==
    LET probed == SubSeq(page.articles, 1, Min(ProbedArticles, Len(page.articles)))
        Titled(a) == a # "none"
        titled == SelectSeq(probed, Titled)
    IN  (IF page.rows # "none" THEN <<ResultStructure("tbody tr", "a", 7)>> ELSE <<>>)
        \o (IF Len(page.articles) >= 2
            THEN [i \in 1..Len(titled) |-> ResultStructure("article", titled[i], 8)]
            ELSE <<>>)
        \o (IF page.cards # "none"
            THEN <<ResultStructure(".card", "h2 a", 6), ResultStructure(".card", "h2 a", 6)>>
            ELSE <<>>)
        \o (IF page.items # "none" THEN <<ResultStructure("li", "a", 4)>> ELSE <<>>)

detect_result_structureUnsorted(page) == StructureCandidates(page)

detect_result_structure(page) == SortedReverse(StructureCandidates(page), "confidence")

\* the items and titles a config finds on the page
ContentValid(page, item, title) ==
    IF item = "tbody tr" THEN page.rows = "titled"
    ELSE IF item = "li" THEN page.items = "titled"
    ELSE IF item = ".card" THEN page.cards = "titled"
    ELSE \E i \in 1..Len(page.articles) : page.articles[i] = title

ArticleLists == UNION {[1..n -> {"none", "h2 a"}] : n \in 0..ProbedArticles}

ResultsPages ==
    {ResultsPage(rows, articles, cards, items) :
        rows \in {"none", "titled"}, articles \in ArticleLists,
        cards \in {"none", "titled"}, items \in {"none", "titled", "untitled"}}

\* an entry of the attempt log and a step of the analyzer
Attempt(msg, tpl, item, title) == [msg |-> msg, pattern |-> tpl, item |-> item, title |-> title]

Step(step, tpl, item, title, pconf, sconf, ok) ==
    [step |-> step, pattern |-> tpl, item |-> item, title |-> title,
     pconf |-> pconf, sconf |-> sconf, ok |-> ok]

\* analyze up to the loop over the patterns
AnalyzeStart ==
    /\ anPc = "home"
    /\ IF anHome = "fail"
       THEN /\ anLog' = <<Attempt("Analyzing", "", "", "")>>
            /\ anTrace' = <<Step("home", "", "", "", 0, 0, FALSE)>>
            /\ anFirst' = AnalysisResult(FALSE, NoConfig, "Failed to fetch site", anLog')
            /\ anPc' = "analyzed"
            /\ UNCHANGED anPatterns
       ELSE LET patterns == detect_search_patterns(anForm)
                log == <<Attempt("Analyzing", "", "", ""),
                         Attempt("Detecting search patterns", "", "", "")>>
            IN  /\ anLog' = log
                /\ anTrace' = <<Step("home", "", "", "", 0, 0, TRUE),
                                Step("detect_patterns", "", "", "", 0, 0, TRUE)>>
                /\ anPatterns' = patterns
                /\ IF patterns = <<>>
                   THEN /\ anFirst' = AnalysisResult(FALSE, NoConfig,
                                          "Could not detect search functionality", log)
                        /\ anPc' = "analyzed"
                   ELSE /\ anPc' = "pattern"
                        /\ UNCHANGED anFirst
    /\ UNCHANGED <<anHome, anForm, anPage, anPi, anStructs, anSi, anKi, anResult>>
    /\ UNCHANGED exceptAn

\* a results page without any result
BlankPage == ResultsPage("none", <<>>, "none", "none")

\* what the fetch of a search URL gives: an exception, a page without
\* results, or the results page of the site
FetchedPages == {"fail", "blank", "page"}

\* a loop over the patterns that ends at the first pattern that fails
AfterFailedPatternBreak(pi) == Len(anPatterns) + 1

\* "continue": the pattern after a pattern that failed
AfterFailedPattern(pi) == pi + 1

\* one pattern: fetch the search results and detect their structure
AnalyzePattern(got) ==
    /\ anPc = "pattern"
    /\ anPi <= Len(anPatterns)
    /\ LET pattern == anPatterns[anPi]
           fetched == got # "fail"
           trying == Attempt("Trying pattern", pattern.url_template, "", "")
           fetch == Step("fetch", pattern.url_template, "", "", pattern.confidence, 0, fetched)
       IN  IF ~fetched
           THEN /\ anLog' = anLog \o <<trying, Attempt("Failed", pattern.url_template, "", "")>>
                /\ anTrace' = Append(anTrace, fetch)
                /\ anPi' = AfterFailedPattern(anPi)
                /\ UNCHANGED <<anPc, anStructs, anSi>>
           ELSE LET structures == detect_result_structure(IF got = "blank" THEN BlankPage
                                                          ELSE anPage)
                    detecting == Attempt("Detecting result structure", pattern.url_template, "", "")
                    detect == Step("detect_structure", pattern.url_template, "", "",
                                   pattern.confidence, 0, structures # <<>>)
                IN  /\ anTrace' = anTrace \o <<fetch, detect>>
                    /\ IF structures = <<>>
                       THEN /\ anLog' = anLog \o <<trying, detecting,
                                   Attempt("No result structure detected", pattern.url_template, "", "")>>
                            /\ anPi' = AfterFailedPattern(anPi)
                            /\ UNCHANGED <<anPc, anStructs, anSi>>
                       ELSE /\ anLog' = anLog \o <<trying, detecting>>
                            /\ anStructs' = structures
                            /\ anSi' = 1
                            /\ anPc' = "structure"
                            /\ UNCHANGED anPi
    /\ UNCHANGED <<anHome, anForm, anPage, anPatterns, anKi, anFirst, anResult>>
    /\ UNCHANGED exceptAn

\* "if validation.success"
ValidationIgnored(valid) == FALSE

ValidationSucceeded(valid) == valid

\* one structure: build the config and validate it
AnalyzeStructure(valid) ==
    /\ anPc = "structure"
    /\ anSi <= Len(anStructs)
    /\ LET pattern == anPatterns[anPi]
           structure == anStructs[anSi]
       IN  /\ valid => ContentValid(anPage, structure.result_item, structure.title)
           /\ LET tried == <<Attempt("Trying structure", pattern.url_template,
                                     structure.result_item, structure.title),
                             Attempt("Validating configuration", pattern.url_template,
                                     structure.result_item, structure.title)>>
                  step == Step("validate", pattern.url_template, structure.result_item,
                               structure.title, pattern.confidence, structure.confidence, valid)
              IN  /\ anTrace' = Append(anTrace, step)
                  /\ IF ValidationSucceeded(valid)
                     THEN /\ anLog' = anLog \o tried \o
                                 <<Attempt("Success", pattern.url_template,
                                           structure.result_item, structure.title)>>
                          /\ anFirst' = AnalysisResult(TRUE,
                                 SiteConfig(pattern.url_template, structure.result_item,
                                            structure.title), "", anLog')
                          /\ anPc' = "analyzed"
                          /\ UNCHANGED <<anPi, anSi>>
                     ELSE /\ anLog' = anLog \o tried \o
                                 <<Attempt("Validation failed", pattern.url_template,
                                           structure.result_item, structure.title)>>
                          /\ UNCHANGED anFirst
                          /\ IF anSi < Len(anStructs)
                             THEN anSi' = anSi + 1 /\ UNCHANGED <<anPi, anPc>>
                             ELSE anSi' = 1 /\ anPi' = anPi + 1 /\ anPc' = "pattern"
    /\ UNCHANGED <<anHome, anForm, anPage, anPatterns, anStructs, anKi, anResult>>
    /\ UNCHANGED exceptAn

\* every pattern was tried
AnalyzeExhausted ==
    /\ anPc = "pattern"
    /\ anPi > Len(anPatterns)
    /\ anFirst' = AnalysisResult(FALSE, NoConfig, "Could not find a working configuration", anLog)
    /\ anPc' = "analyzed"
    /\ UNCHANGED <<anHome, anForm, anPage, anPatterns, anPi, anStructs, anSi, anKi,
                   anLog, anResult, anTrace>>
    /\ UNCHANGED exceptAn

\* the configs analyze_with_known_patterns validates, in its order
known_configs ==
    <<SiteConfig("/?s=", "article", "h2 a"),
      SiteConfig("/search/{query}/1/", "tbody tr", "td a:nth-of-type(2)"),
      SiteConfig("/search?q=", ".result, .item, article", "h2 a, h3 a, .title a")>>

\* cmd_add: "if not result.success"
AlwaysFallback(result) == TRUE

NeedsFallback(result) == ~result.success

\* cmd_add after analyze: keep its result, or call
\* analyze_with_known_patterns, which starts with an empty attempt log
AddAfterAnalyze ==
    /\ anPc = "analyzed"
    /\ IF NeedsFallback(anFirst)
       THEN /\ anLog' = <<>>
            /\ anKi' = 1
            /\ anPc' = "known"
            /\ UNCHANGED anResult
       ELSE /\ anResult' = anFirst
            /\ anPc' = "exit"
            /\ UNCHANGED <<anLog, anKi>>
    /\ UNCHANGED <<anHome, anForm, anPage, anPatterns, anPi, anStructs, anSi, anFirst, anTrace>>
    /\ UNCHANGED exceptAn

\* one known config
KnownPattern(valid) ==
    /\ anPc = "known"
    /\ anKi <= Len(known_configs)
    /\ LET config == known_configs[anKi]
           trying == Attempt("Trying known pattern", config.url_template,
                             config.result_item, config.title)
       IN  /\ anTrace' = Append(anTrace, Step("known", config.url_template,
                                    config.result_item, config.title, 0, 0, valid))
           /\ IF valid
              THEN /\ anLog' = anLog \o <<trying, Attempt("Success", config.url_template,
                                              config.result_item, config.title)>>
                   /\ anResult' = AnalysisResult(TRUE, config, "", anLog')
                   /\ anPc' = "exit"
                   /\ UNCHANGED anKi
              ELSE /\ anLog' = anLog \o <<trying, Attempt("Failed", config.url_template,
                                              config.result_item, config.title)>>
                   /\ anKi' = anKi + 1
                   /\ UNCHANGED <<anResult, anPc>>
    /\ UNCHANGED <<anHome, anForm, anPage, anPatterns, anPi, anStructs, anSi, anFirst>>
    /\ UNCHANGED exceptAn

KnownExhausted ==
    /\ anPc = "known"
    /\ anKi > Len(known_configs)
    /\ anResult' = AnalysisResult(FALSE, NoConfig, "No known patterns matched", anLog)
    /\ anPc' = "exit"
    /\ UNCHANGED <<anHome, anForm, anPage, anPatterns, anPi, anStructs, anSi, anKi,
                   anLog, anFirst, anTrace>>
    /\ UNCHANGED exceptAn

InitAnalyze ==
    /\ BackingIdle
    /\ SyncIdle /\ StreamIdle /\ SortIdle /\ UiIdle /\ CfgIdle /\ GmIdle /\ ScIdle
    /\ AtIdle /\ VlIdle /\ LaterIdle
    /\ anPc = "home"
    /\ anHome \in {"ok", "fail"}
    /\ anForm \in Forms
    /\ anPage \in ResultsPages
    /\ anPatterns = <<>>
    /\ anPi = 1
    /\ anStructs = <<>>
    /\ anSi = 1
    /\ anKi = 1
    /\ anLog = <<>>
    /\ anFirst = NoAnalysis
    /\ anResult = NoAnalysis
    /\ anTrace = <<>>

NextAnalyze ==
    \/ AnalyzeStart
    \/ \E got \in {"fail", "page"} : AnalyzePattern(got)
    \/ \E valid \in BOOLEAN : AnalyzeStructure(valid)
    \/ AnalyzeExhausted
    \/ AddAfterAnalyze
    \/ \E valid \in BOOLEAN : KnownPattern(valid)
    \/ KnownExhausted

SpecAnalyze == InitAnalyze /\ [][NextAnalyze]_vars

\* the steps of one kind
StepsOf(trace, kinds) ==
    LET Is(e) == e.step \in kinds
    IN  SelectSeq(trace, Is)

\* C14: after a failed homepage fetch nothing else runs in the add flow: no
\* pattern is detected or fetched, no config validated, and the known
\* patterns are not tried.
C14_HomepageFailureAborts ==
    anHome = "fail" => \A i \in 1..Len(anTrace) : anTrace[i].step = "home"

\* the (pattern, structure) pair of a validation step or of a config
PairOf(e) == <<e.pattern, e.item, e.title>>

\* the steps of analyze
AnalyzeSteps == StepsOf(anTrace, {"home", "detect_patterns", "fetch", "detect_structure", "validate"})

\* the validations analyze ran for the pattern tpl
TriesOf(tpl) ==
    LET Is(e) == e.step = "validate" /\ e.pattern = tpl
    IN  SelectSeq(anTrace, Is)

\* C15: analyze goes through the patterns by confidence descending and, for
\* a pattern whose results page it could fetch, through the structures by
\* confidence descending, skipping none; it returns the first pair whose
\* validation succeeds, and that validation is its last step; if no
\* validation succeeds it has tried every pattern and returns failure.
C15_FirstValidPairWins ==
    (anPc \in {"analyzed", "known", "exit"} /\ anHome = "ok") =>
        LET fetches == StepsOf(anTrace, {"fetch"})
            tries == StepsOf(anTrace, {"validate"})
            structures == detect_result_structure(anPage)
        IN  /\ Len(fetches) <= Len(anPatterns)
            /\ \A i \in 1..Len(fetches) :
                  /\ fetches[i].pattern = anPatterns[i].url_template
                  /\ i > 1 => fetches[i - 1].pconf >= fetches[i].pconf
                  /\ LET mine == TriesOf(fetches[i].pattern)
                     IN  /\ ~fetches[i].ok => mine = <<>>
                         /\ Len(mine) <= Len(structures)
                         /\ \A k \in 1..Len(mine) :
                               /\ mine[k].item = structures[k].result_item
                               /\ mine[k].title = structures[k].title
                               /\ k > 1 => mine[k - 1].sconf >= mine[k].sconf
                         /\ (fetches[i].ok /\ (i < Len(fetches) \/ ~anFirst.success))
                               => Len(mine) = Len(structures)
            /\ \A k \in 1..Len(tries) : tries[k].ok <=> (anFirst.success /\ k = Len(tries))
            /\ IF anFirst.success
               THEN /\ tries # <<>>
                    /\ AnalyzeSteps[Len(AnalyzeSteps)] = tries[Len(tries)]
                    /\ <<anFirst.config.url_template, anFirst.config.result_item,
                         anFirst.config.title>> = PairOf(tries[Len(tries)])
               ELSE Len(fetches) = Len(anPatterns)

\* C15 witness: analyze succeeded on its second pattern and on the second
\* structure of that pattern's page
C15_Witness ==
    /\ anPc = "analyzed"
    /\ anFirst.success
    /\ Len(StepsOf(anTrace, {"fetch"})) = 2
    /\ ~StepsOf(anTrace, {"fetch"})[1].ok
    /\ Len(StepsOf(anTrace, {"validate"})) = 2
    /\ anFirst.config.result_item = "tbody tr"

\* C16: the known configs are validated only when analyze did not succeed,
\* in the order /?s=, /search/{query}/1/, /search?q=; the first that
\* validates is returned and the later ones are not tried; when none
\* validates the result is a failure.
C16_KnownPatternsInOrder ==
    LET known == StepsOf(anTrace, {"known"})
    IN  /\ known # <<>> => (anPc \in {"known", "exit"} /\ ~anFirst.success)
        /\ Len(known) <= 3
        /\ \A k \in 1..Len(known) :
              known[k].pattern = <<"/?s=", "/search/{query}/1/", "/search?q=">>[k]
        /\ \A k \in 1..Len(known) :
              known[k].ok => (k = Len(known) /\ anPc = "exit" /\ anResult.success
                              /\ anResult.config.url_template = known[k].pattern)
        /\ anPc = "exit" =>
              IF anFirst.success THEN anResult = anFirst
              ELSE IF anResult.success THEN known # <<>> /\ known[Len(known)].ok
              ELSE Len(known) = 3

\* C16 witness: the second known config validated after analyze had failed
\* and the first known config had not validated
C16_Witness ==
    /\ anPc = "exit"
    /\ anHome = "ok"
    /\ ~anFirst.success
    /\ anResult.success
    /\ anResult.config.url_template = "/search/{query}/1/"
    /\ Len(StepsOf(anTrace, {"known"})) = 2

\* what the attempt log says was tried, and what was tried
TriedInLog(attempts) ==
    LET Is(a) == a.msg \in {"Trying pattern", "Trying structure", "Trying known pattern"}
        tried == SelectSeq(attempts, Is)
    IN  [i \in 1..Len(tried) |-> <<tried[i].pattern, tried[i].item, tried[i].title>>]

TriedInTrace(trace) ==
    LET tried == StepsOf(trace, {"fetch", "validate", "known"})
    IN  [i \in 1..Len(tried) |-> PairOf(tried[i])]

\* C17: the result handed to the caller of the add flow has, in execution
\* order, an attempt for every pattern, structure and known pattern that was
\* tried, in whichever phase.
C17_LogHoldsEveryStep ==
    anPc = "exit" => TriedInLog(anResult.attempts) = TriedInTrace(anTrace)

\* C18 as stated: when the results page has an article whose title an
\* article-based config finds, and list items or table rows that a list- or
\* table-based config validates, and no validation of a config that the
\* page satisfies failed, the config analyze returns is article-based.
C18_ArticleWinsWheneverValid ==
    LET tries == StepsOf(anTrace, {"validate"})
    IN  (/\ anFirst.success
         /\ ContentValid(anPage, "article", "h2 a")
         /\ ContentValid(anPage, "li", "a") \/ ContentValid(anPage, "tbody tr", "a")
         /\ \A k \in 1..Len(tries) :
               ContentValid(anPage, tries[k].item, tries[k].title) => tries[k].ok)
        => anFirst.config.result_item = "article"

\* C18: detect_result_structure returns its candidates by confidence
\* non-increasing (article 8, table 7, card 6, list 4 tenths); when it
\* detects an article-based structure, which takes two articles of which
\* one of the first two has a title, and no validation of a config that the
\* page satisfies failed, the config analyze returns is article-based.
C18_ArticleWinsWhenDetected ==
    LET tries == StepsOf(anTrace, {"validate"})
        structures == detect_result_structure(anPage)
    IN  /\ \A i \in 1..Len(structures) : \A j \in 1..Len(structures) :
              i < j => structures[i].confidence >= structures[j].confidence
        /\ \A i \in 1..Len(structures) :
              structures[i].confidence =
                 IF structures[i].result_item = "article" THEN 8
                 ELSE IF structures[i].result_item = "tbody tr" THEN 7
                 ELSE IF structures[i].result_item = "li" THEN 4 ELSE 6
        /\ (/\ anFirst.success
            /\ \E i \in 1..Len(structures) : structures[i].result_item = "article"
            /\ \A k \in 1..Len(tries) :
                  ContentValid(anPage, tries[k].item, tries[k].title) => tries[k].ok)
           => anFirst.config.result_item = "article"

\* C18 witness: analyze returned the article-based config of a page that
\* also has table rows and list items with titles
C18_Witness ==
    /\ anPc = "analyzed"
    /\ anFirst.success
    /\ anFirst.config.result_item = "article"
    /\ anPage.rows = "titled"
    /\ anPage.items = "titled"
    /\ Len(anPage.articles) = 2

(***************************************************************************)
(* analyze alone, on a site whose search URLs may also answer with a page  *)
(* without results, so that a pattern with nothing detected can come       *)
(* before one whose page has the results.                                  *)
(***************************************************************************)
ProbedPages ==
    {ResultsPage(rows, articles, "none", "none") :
        rows \in {"none", "titled"}, articles \in {<<>>, <<"h2 a", "none">>}}

InitProbe ==
    /\ BackingIdle
    /\ SyncIdle /\ StreamIdle /\ SortIdle /\ UiIdle /\ CfgIdle /\ GmIdle /\ ScIdle
    /\ AtIdle /\ VlIdle /\ LaterIdle
    /\ anPc = "home"
    /\ anHome = "ok"
    /\ anForm \in {"none", "single_keyword"}
    /\ anPage \in ProbedPages
    /\ anPatterns = <<>>
    /\ anPi = 1
    /\ anStructs = <<>>
    /\ anSi = 1
    /\ anKi = 1
    /\ anLog = <<>>
    /\ anFirst = NoAnalysis
    /\ anResult = NoAnalysis
    /\ anTrace = <<>>

NextProbe ==
    \/ AnalyzeStart
    \/ \E got \in FetchedPages : AnalyzePattern(got)
    \/ \E valid \in BOOLEAN : AnalyzeStructure(valid)
    \/ AnalyzeExhausted

SpecProbe == InitProbe /\ [][NextProbe]_vars

\* C26: a pattern whose results page could not be fetched, or on whose page
\* no structure was detected, has no validation and is followed by the fetch
\* of the next pattern, if there is one; analyze succeeds exactly when a
\* validation succeeded, whatever failed before it, and fails only after
\* the last pattern.
C26_PatternFailureAdvances ==
    anPc = "analyzed" =>
        LET fetches == StepsOf(anTrace, {"fetch"})
            detects == StepsOf(anTrace, {"detect_structure"})
            tries == StepsOf(anTrace, {"validate"})
            Failed(i) ==
                \/ ~fetches[i].ok
                \/ \E d \in 1..Len(detects) :
                      detects[d].pattern = fetches[i].pattern /\ ~detects[d].ok
        IN  /\ \A i \in 1..Len(fetches) :
                  Failed(i) =>
                      /\ TriesOf(fetches[i].pattern) = <<>>
                      /\ i < Len(anPatterns) =>
                            /\ Len(fetches) > i
                            /\ fetches[i + 1].pattern = anPatterns[i + 1].url_template
            /\ anFirst.success <=> \E k \in 1..Len(tries) : tries[k].ok
            /\ ~anFirst.success => Len(fetches) = Len(anPatterns)

\* C26 witness: the first pattern's fetch failed, the second pattern's page
\* had no structure, the third pattern validated
C26_Witness ==
    /\ anPc = "analyzed"
    /\ anFirst.success
    /\ Len(StepsOf(anTrace, {"fetch"})) = 3
    /\ ~StepsOf(anTrace, {"fetch"})[1].ok
    /\ Len(StepsOf(anTrace, {"detect_structure"})) = 2
    /\ ~StepsOf(anTrace, {"detect_structure"})[1].ok
    /\ anFirst.config.url_template = anPatterns[3].url_template

\* C30: the list analyze gets from detect_result_structure has at most four
\* candidates, no two with the same result_item and title selectors, and
\* analyze validates no (pattern, structure) pair twice.
C30_OneCandidatePerStrategy ==
    LET structures == anStructs
        tries == StepsOf(anTrace, {"validate"})
    IN  /\ Len(structures) <= 4
        /\ \A i \in 1..Len(structures) : \A j \in 1..Len(structures) :
              (i # j) => <<structures[i].result_item, structures[i].title>>
                           # <<structures[j].result_item, structures[j].title>>
        /\ \A k \in 1..Len(tries) : \A l \in 1..Len(tries) :
              (k # l) => PairOf(tries[k]) # PairOf(tries[l])

(***************************************************************************)
(* validate_config (core/analyzer/validator.py) as a function of what the  *)
(* search URL gives: rendering the template raises ("template"), the       *)
(* request raises or the status is not a success ("network", "status":     *)
(* both requests.RequestException), or the page is fetched; one of the     *)
(* selectors may be malformed, which raises where it is first used; each   *)
(* matched item has a non-empty title ("titled") or not ("untitled").      *)
(***************************************************************************)
ValidatedConfig == SiteConfig("/?s=", "article", "h2 a")

FetchResults == {"ok", "template", "network", "status"}

Selectors == {"none", "result_item", "title", "magnet"}

MatchedItems == UNION {[1..n -> {"titled", "untitled"}] : n \in 0..MaxMatched}

\* the two except clauses; a result with success = FALSE, or the exception
\* leaves the function
Outcome(raised, ret) == [raised |-> raised, ret |-> ret]

ExceptionResultNetworkOnly(exc) ==
    IF exc \in {"network", "status"}
    THEN Outcome(FALSE, ValidationResult(FALSE, 0, 0, "Network error", ""))
    ELSE Outcome(TRUE, NoValidation)

ExceptionResult(exc) ==
    IF exc \in {"network", "status"}
    THEN Outcome(FALSE, ValidationResult(FALSE, 0, 0, "Network error", ""))
    ELSE Outcome(FALSE, ValidationResult(FALSE, 0, 0, "Validation error", ""))

\* items[:5]
SampledItemsAll(items) == items

SampledItems(items) == PySliceTo(items, 5)

validate_config(config, fetch, selErr, items) ==
    IF fetch # "ok" THEN ExceptionResult(fetch)
    ELSE IF selErr = "result_item" THEN ExceptionResult("selector")
    ELSE IF items = <<>>
    THEN Outcome(FALSE, ValidationResult(FALSE, 0, 0, "No results found with selector",
                                         config.result_item))
    ELSE IF selErr \in {"title", "magnet"} THEN ExceptionResult("selector")
    ELSE LET Titled(item) == item = "titled"
             sample_titles == SelectSeq(SampledItems(items), Titled)
         IN  IF sample_titles = <<>>
             THEN Outcome(FALSE, ValidationResult(FALSE, 0, 0,
                                     "Could not extract titles with selector", config.title))
             ELSE Outcome(FALSE, ValidationResult(TRUE, Len(items), Len(sample_titles), "", ""))

InitValidate ==
    /\ BackingIdle
    /\ SyncIdle /\ StreamIdle /\ SortIdle /\ UiIdle /\ CfgIdle /\ GmIdle /\ ScIdle
    /\ AtIdle /\ AnIdle /\ LaterIdle
    /\ vlPc = "call"
    /\ vlFetch \in FetchResults
    /\ vlSelErr \in Selectors
    /\ vlItems \in MatchedItems
    /\ vlRet = NoValidation
    /\ vlRaised = FALSE

ValidateCall ==
    /\ vlPc = "call"
    /\ LET out == validate_config(ValidatedConfig, vlFetch, vlSelErr, vlItems)
       IN  /\ vlRet' = out.ret
           /\ vlRaised' = out.raised
    /\ vlPc' = "returned"
    /\ UNCHANGED <<vlFetch, vlSelErr, vlItems>>
    /\ UNCHANGED exceptVl

NextValidate == ValidateCall

SpecValidate == InitValidate /\ [][NextValidate]_vars

\* C19: validate_config never raises; with a fetched page on which the
\* result_item selector matches nothing it fails with the result_item
\* selector in its error; and every failed rendering, request, status or
\* selector gives a failure with an error string.
C19_ValidateNeverRaises ==
    vlPc = "returned" =>
        /\ ~vlRaised
        /\ (vlFetch = "ok" /\ vlSelErr # "result_item" /\ vlItems = <<>>) =>
              /\ ~vlRet.success
              /\ vlRet.selector = ValidatedConfig.result_item
        /\ (vlFetch # "ok" \/ vlSelErr = "result_item"
                \/ (vlItems # <<>> /\ vlSelErr # "none")) =>
              /\ ~vlRet.success
              /\ vlRet.error \in {"Network error", "Validation error"}
              /\ vlFetch \in {"network", "status"} <=> vlRet.error = "Network error"

\* C19 witness: a malformed title selector ended as a failure result
C19_Witness ==
    /\ vlPc = "returned"
    /\ vlFetch = "ok"
    /\ vlSelErr = "title"
    /\ Len(vlItems) = 2
    /\ vlRet.error = "Validation error"

\* C20 as stated: with K >= 1 matched items of which any one has a title,
\* validate_config succeeds with results_found = K and at most 5 samples,
\* and it names the title selector only when no matched item has a title.
C20_AnyTitledItemSucceeds ==
    (vlPc = "returned" /\ vlFetch = "ok" /\ vlSelErr = "none" /\ vlItems # <<>>) =>
        IF \E i \in 1..Len(vlItems) : vlItems[i] = "titled"
        THEN /\ vlRet.success
             /\ vlRet.results_found = Len(vlItems)
             /\ vlRet.sample_titles <= 5
        ELSE ~vlRet.success /\ vlRet.selector = ValidatedConfig.title

\* C20: with K >= 1 matched items of which one of the first five has a
\* title, and well-formed selectors, validate_config succeeds with
\* results_found = K and between 1 and 5 samples; it fails naming the title
\* selector exactly when none of the first five has a title.
C20_TitledAmongFirstFiveSucceeds ==
    (vlPc = "returned" /\ vlFetch = "ok" /\ vlSelErr = "none" /\ vlItems # <<>>) =>
        IF \E i \in 1..Len(vlItems) : i <= 5 /\ vlItems[i] = "titled"
        THEN /\ vlRet.success
             /\ vlRet.results_found = Len(vlItems)
             /\ vlRet.sample_titles >= 1
             /\ vlRet.sample_titles <= 5
        ELSE ~vlRet.success /\ vlRet.selector = ValidatedConfig.title

\* C20 witness: six matched items, all with a title: six results, five samples
C20_Witness ==
    /\ vlPc = "returned"
    /\ vlRet.success
    /\ vlRet.results_found = 6
    /\ vlRet.sample_titles = 5

(***************************************************************************)
(* DynamicSource.search (core/sources/dynamic.py).  A text is a tuple of   *)
(* characters, so that int() and parse_size are computed on it.  An        *)
(* element is what select_one gives: no element (also when the selector is *)
(* not configured) or an element with its stripped text.                   *)
(***************************************************************************)
Elem(text) == [found |-> TRUE, text |-> text]

NoElem == [found |-> FALSE, text |-> <<>>]

Digits == <<"0", "1", "2", "3", "4", "5", "6", "7", "8", "9">>

IsDigit(c) == \E i \in 1..10 : Digits[i] = c

DigitVal(c) == (CHOOSE i \in 1..10 : Digits[i] = c) - 1

RECURSIVE DecimalValue(_)
DecimalValue(ds) ==
    IF ds = <<>> THEN 0
    ELSE 10 * DecimalValue(SubSeq(ds, 1, Len(ds) - 1)) + DigitVal(ds[Len(ds)])

\* what a called function does: it raises, or it returns value
Returned(value) == [raises |-> FALSE, value |-> value]

Raised == [raises |-> TRUE, value |-> 0]

\* int(text): an optional sign, then digits; ValueError otherwise
PyInt(text) ==
    LET signed == text # <<>> /\ text[1] \in {"-", "+"}
        digits == IF signed THEN Tail(text) ELSE text
    IN  IF digits # <<>> /\ \A i \in 1..Len(digits) : IsDigit(digits[i])
        THEN Returned(IF signed /\ text[1] = "-"
                      THEN 0 - DecimalValue(digits) ELSE DecimalValue(digits))
        ELSE Raised

\* float(text) of a text of digits and dots, as numerator and denominator
PyFloat(text) ==
    LET dots == {i \in 1..Len(text) : text[i] = "."}
        IsDig(c) == c # "."
        digits == SelectSeq(text, IsDig)
        RECURSIVE Pow10(_)
        Pow10(n) == IF n = 0 THEN 1 ELSE 10 * Pow10(n - 1)
    IN  IF Cardinality(dots) > 1 \/ digits = <<>>
        THEN [raises |-> TRUE, num |-> 0, den |-> 1]
        ELSE [raises |-> FALSE, num |-> DecimalValue(digits),
              den |-> IF dots = {} THEN 1
                      ELSE Pow10(Len(text) - (CHOOSE i \in dots : TRUE))]

Upper(c) ==
    IF c = "b" THEN "B" ELSE IF c = "k" THEN "K" ELSE IF c = "m" THEN "M"
    ELSE IF c = "g" THEN "G" ELSE IF c = "t" THEN "T" ELSE IF c = "i" THEN "I" ELSE c

\* the alternatives of the unit group, in the order of the pattern
SizeUnits ==
    <<<<"B">>, <<"K", "B">>, <<"M", "B">>, <<"G", "B">>, <<"T", "B">>,
      <<"K", "I", "B">>, <<"M", "I", "B">>, <<"G", "I", "B">>, <<"T", "I", "B">>>>

Multiplier(unit) ==
    IF unit = <<"B">> THEN 1
    ELSE IF unit[1] = "K" THEN 1024
    ELSE IF unit[1] = "M" THEN 1024 * 1024
    ELSE IF unit[1] = "G" THEN 1024 * 1024 * 1024
    ELSE 1024 * 1024 * 1024 * 1024

IsPrefix(p, s) == Len(p) <= Len(s) /\ SubSeq(s, 1, Len(p)) = p

\* parse_size: ([\d.]+)\s*(B|KB|...) matched at the start of the upper-cased
\* text, then int(float(group 1) * multiplier); float may raise
parse_size(size_str) ==
    LET up == [i \in 1..Len(size_str) |-> Upper(size_str[i])]
        IsNum(c) == IsDigit(c) \/ c = "."
        n == IF \A i \in 1..Len(up) : IsNum(up[i]) THEN Len(up)
             ELSE (CHOOSE i \in 1..Len(up) :
                      ~IsNum(up[i]) /\ \A j \in 1..(i - 1) : IsNum(up[j])) - 1
        rest == SubSeq(up, n + 1, Len(up))
        sp == IF \A i \in 1..Len(rest) : rest[i] = " " THEN Len(rest)
              ELSE (CHOOSE i \in 1..Len(rest) :
                       rest[i] # " " /\ \A j \in 1..(i - 1) : rest[j] = " ") - 1
        tail == SubSeq(rest, sp + 1, Len(rest))
        units == {u \in 1..Len(SizeUnits) : IsPrefix(SizeUnits[u], tail)}
    IN  IF n = 0 \/ units = {} THEN Returned(0)
        ELSE LET unit == SizeUnits[CHOOSE u \in units : \A v \in units : u <= v]
                 value == PyFloat(SubSeq(up, 1, n))
             IN  IF value.raises THEN Raised
                 ELSE Returned((value.num * Multiplier(unit)) \div value.den)

\* a seeders or leechers field in which the ValueError of int() is not caught
IntFieldUncaught(elem) ==
    IF ~elem.found THEN Returned(0) ELSE PyInt(elem.text)

\* a seeders or leechers field: 0 without an element or when int() raises
IntField(elem) ==
    IF ~elem.found THEN Returned(0)
    ELSE IF PyInt(elem.text).raises THEN Returned(0)
    ELSE PyInt(elem.text)

Item(title, seeders, leechers, size) ==
    [title |-> title, seeders |-> seeders, leechers |-> leechers, size |-> size]

\* _parse_result: None (no Result), a Result, or an exception
NoParsed == [raises |-> FALSE, some |-> FALSE,
             result |-> TorrentResult(<<>>, 0, 0, 0, "none", None, "None")]

parse_result(item) ==
    IF ~item.title.found \/ item.title.text = <<>> THEN NoParsed
    ELSE LET size == IF item.size.found THEN parse_size(item.size.text) ELSE Returned(0)
             seeders == IntField(item.seeders)
             leechers == IntField(item.leechers)
         IN  IF size.raises \/ seeders.raises \/ leechers.raises
             THEN [NoParsed EXCEPT !.raises = TRUE]
             ELSE [raises |-> FALSE, some |-> TRUE,
                   result |-> TorrentResult(item.title.text, seeders.value, leechers.value,
                                            size.value, SiteName(1), None, "url")]

\* the loop of search over items[:30], up to the item that raises
RECURSIVE ParseItems(_, _)
ParseItems(items, results) ==
    IF items = <<>> THEN [err |-> FALSE, results |-> results]
    ELSE LET r == parse_result(Head(items))
         IN  IF r.raises THEN [err |-> TRUE, results |-> results]
             ELSE ParseItems(Tail(items),
                             IF r.some THEN Append(results, r.result) ELSE results)

IntTexts == {<<"x">>, <<"7">>, <<"-", "7">>}

SizeFieldTexts ==
    {<<"2", "K", "B">>, <<"-", "2", "K", "B">>, <<"1", ".", "5", " ", "m", "b">>,
     <<"1", ".", "2", ".", "3", "B">>}

IntElems == {NoElem} \cup {Elem(t) : t \in IntTexts}

PlainItem == Item(Elem(<<"t">>), Elem(<<"7">>), Elem(<<"3">>), Elem(<<"2", "K", "B">>))

DynItems ==
    {Item(NoElem, NoElem, NoElem, NoElem), Item(Elem(<<>>), NoElem, NoElem, NoElem)}
    \cup {Item(Elem(<<"t">>), s, l, Elem(<<"2", "K", "B">>)) : s \in IntElems, l \in IntElems}
    \cup {Item(Elem(<<"u">>), Elem(<<"7">>), Elem(<<"3">>), z) :
              z \in {NoElem} \cup {Elem(t) : t \in SizeFieldTexts}}

\* the short pages, and pages of one item more than search examines
DynPages ==
    UNION {[1..n -> DynItems] : n \in 0..MaxDynItems}
    \cup {<<h>> \o [i \in 1..(PerSourceCap - 1) |-> PlainItem] \o <<t>> :
              h \in DynItems, t \in DynItems}

InitDynamic ==
    /\ BackingIdle
    /\ SyncIdle /\ StreamIdle /\ SortIdle /\ UiIdle /\ CfgIdle /\ GmIdle /\ ScIdle
    /\ AtIdle /\ AnIdle /\ VlIdle /\ FsIdle /\ HlIdle
    /\ dyPc = "call"
    /\ dyFetch \in {"ok", "fail"}
    /\ dyItems \in DynPages
    /\ dyResults = <<>>
    /\ dyErr = FALSE

DynamicSearch ==
    /\ dyPc = "call"
    /\ LET out == IF dyFetch = "fail" THEN [err |-> TRUE, results |-> <<>>]
                  ELSE ParseItems(PySliceTo(dyItems, PerSourceCap), <<>>)
       IN  /\ dyResults' = out.results
           /\ dyErr' = out.err
    /\ dyPc' = "returned"
    /\ UNCHANGED <<dyFetch, dyItems>>
    /\ UNCHANGED exceptDy

NextDynamic == DynamicSearch

SpecDynamic == InitDynamic /\ [][NextDynamic]_vars

\* C21: every Result of DynamicSource.search has seeders >= 0,
\* leechers >= 0 and size >= 0, whatever the texts of the three fields are.
C21_FieldsNonNegative ==
    dyPc = "returned" =>
        \A i \in 1..Len(dyResults) :
            /\ dyResults[i].seeders >= 0
            /\ dyResults[i].leechers >= 0
            /\ dyResults[i].size >= 0

\* C22: on a fetched page whose size texts parse, search catches nothing
\* and returns one Result for each of the first 30 items that has a
\* non-empty title, in the order of the page, and none for the others; in
\* that Result seeders (leechers) is 0 when the item has no seeders
\* (leechers) element or the element's text is not a number.
C22_BadFieldsKeepTheItem ==
    LET examined == PySliceTo(dyItems, 30)
        titled == {i \in 1..Len(examined) :
                      examined[i].title.found /\ examined[i].title.text # <<>>}
        NotANumber(elem) ==
            ~elem.found \/ \E c \in 1..Len(elem.text) : elem.text[c] \notin {"-", "7", "3"}
        ItemOf(j) == CHOOSE i \in titled : Cardinality({k \in titled : k <= i}) = j
    IN  (/\ dyPc = "returned"
         /\ dyFetch = "ok"
         /\ \A i \in titled :
               examined[i].size.found => ~parse_size(examined[i].size.text).raises)
        => /\ ~dyErr
           /\ Len(dyResults) = Cardinality(titled)
           /\ \A j \in 1..Len(dyResults) :
                 /\ dyResults[j].title = examined[ItemOf(j)].title.text
                 /\ NotANumber(examined[ItemOf(j)].seeders) => dyResults[j].seeders = 0
                 /\ NotANumber(examined[ItemOf(j)].leechers) => dyResults[j].leechers = 0

\* C22 witness: a page of 31 titled items whose first has a non-numeric
\* seeders text: 30 Results, the first with seeders 0
C22_Witness ==
    /\ dyPc = "returned"
    /\ Len(dyItems) = PerSourceCap + 1
    /\ dyItems[1].title.found
    /\ dyItems[1].seeders = Elem(<<"x">>)
    /\ dyItems[PerSourceCap + 1].title = Elem(<<"t">>)
    /\ Len(dyResults) = PerSourceCap
    /\ dyResults[1].seeders = 0

(***************************************************************************)
(* The configuration store (core/config): sites.yaml as the mapping of     *)
(* its "sites" key, SiteConfig.to_dict and from_dict, and the operations   *)
(* of ConfigManager on the file.                                           *)
(***************************************************************************)
\* what a mapping entry can hold under "search", "selectors" and "patterns"
SearchShapes == {"missing", "null", "string", "no_template", "ok"}

SelectorShapes == {"missing", "null", "string", "no_item", "no_title", "ok"}

PatternShapes == {"missing", "null", "string", "ok"}

SiteConfig_to_dict(config) ==
    YamlEntry("mapping", config.name, "given",
              IF config.enabled THEN "true" ELSE "false", "ok", "ok", "ok")

\* from_dict, in the order its expressions are evaluated: data.get on
\* something that is no mapping is an AttributeError, a missing key a
\* KeyError, a subscript of null or of a string a TypeError
SiteConfig_from_dict(key, data) ==
    LET fails(exc) == [raises |-> exc, config |-> NotLoaded]
    IN  IF data.shape # "mapping" THEN fails("AttributeError")
        ELSE IF data.base_url = "missing" THEN fails("KeyError")
        ELSE IF data.search \in {"missing", "no_template"} THEN fails("KeyError")
        ELSE IF data.search \in {"null", "string"} THEN fails("TypeError")
        ELSE IF data.selectors \in {"missing", "no_item", "no_title"} THEN fails("KeyError")
        ELSE IF data.selectors \in {"null", "string"} THEN fails("TypeError")
        ELSE IF data.patterns \in {"null", "string"} THEN fails("AttributeError")
        ELSE [raises |-> "none",
              config |-> StoredConfig(IF data.name = "missing" THEN SiteName(key)
                                      ELSE data.name,
                                      data.enabled # "false")]

\* load_all: KeyError and TypeError skip the entry, anything else leaves
\* load_all
load_all(file) ==
    LET present == {k \in SiteKeys : file.exists /\ file.sites[k].shape # "absent"}
        parsed == [k \in SiteKeys |-> SiteConfig_from_dict(k, file.sites[k])]
        escaping == {k \in present : parsed[k].raises \notin {"none", "KeyError", "TypeError"}}
    IN  IF escaping # {}
        THEN [raises |-> parsed[CHOOSE k \in escaping : TRUE].raises,
              sites |-> [k \in SiteKeys |-> NotLoaded]]
        ELSE [raises |-> "none",
              sites |-> [k \in SiteKeys |->
                            IF k \in present /\ parsed[k].raises = "none"
                            THEN parsed[k].config ELSE NotLoaded]]

\* load_enabled that forgets the filter
load_enabledAll(file) ==
    [raises |-> load_all(file).raises,
     keys |-> {k \in SiteKeys : load_all(file).sites[k].loaded}]

load_enabled(file) ==
    [raises |-> load_all(file).raises,
     keys |-> {k \in SiteKeys : load_all(file).sites[k].loaded
                                  /\ load_all(file).sites[k].enabled}]

\* what an operation does to the file: the new file, the return value
Done(file, ret, raises) == [file |-> file, ret |-> ret, raises |-> raises]

save(file, key, config) ==
    Done([exists |-> TRUE, sites |-> [file.sites EXCEPT ![key] = SiteConfig_to_dict(config)]],
         "None", "none")

remove(file, key) ==
    IF ~file.exists THEN Done(file, "False", "none")
    ELSE IF file.sites[key].shape = "absent" THEN Done(file, "False", "none")
    ELSE Done([file EXCEPT !.sites[key] = Absent], "True", "none")

set_enabled(file, key, enabled) ==
    IF ~file.exists THEN Done(file, "False", "none")
    ELSE IF file.sites[key].shape = "absent" THEN Done(file, "False", "none")
    ELSE IF file.sites[key].shape # "mapping" THEN Done(file, "none", "TypeError")
    ELSE Done([file EXCEPT !.sites[key].enabled = IF enabled THEN "true" ELSE "false"],
              "True", "none")

\* the entries a hand-written file can hold: a well-formed mapping, a mapping
\* with one thing wrong, or something that is no mapping
WellFormedEntries ==
    {YamlEntry("mapping", name, "given", enabled, "ok", "ok", patterns) :
        name \in {"missing", "Site"}, enabled \in {"missing", "true", "false"},
        patterns \in {"missing", "ok"}}

MalformedEntries ==
    {YamlEntry("mapping", "Site", "missing", "true", "ok", "ok", "ok")}
    \cup {YamlEntry("mapping", "Site", "given", "true", search, "ok", "ok") :
             search \in SearchShapes \ {"ok"}}
    \cup {YamlEntry("mapping", "Site", "given", "true", "ok", selectors, "ok") :
             selectors \in SelectorShapes \ {"ok"}}
    \cup {YamlEntry("mapping", "Site", "given", "true", "ok", "ok", patterns) :
             patterns \in PatternShapes \ {"missing", "ok"}}
    \cup {YamlEntry(shape, "missing", "missing", "missing", "missing", "missing", "missing") :
             shape \in {"null", "string", "list"}}

Files ==
    {NoFile} \cup
    {[exists |-> TRUE, sites |-> sites] :
        sites \in [SiteKeys -> WellFormedEntries \cup MalformedEntries \cup {Absent}]}

\* load_all and load_enabled on the file as it is
LoadAll ==
    /\ fsPc = "ready"
    /\ fsLoaded' = load_all(fsFile).sites
    /\ fsEnabled' = load_enabled(fsFile).keys
    /\ fsRaised' = load_all(fsFile).raises
    /\ fsPc' = "loaded"
    /\ UNCHANGED <<fsFile, fsRet, fsHist>>
    /\ UNCHANGED exceptFs

InitLoad ==
    /\ BackingIdle
    /\ SyncIdle /\ StreamIdle /\ SortIdle /\ UiIdle /\ CfgIdle /\ GmIdle /\ ScIdle
    /\ AtIdle /\ AnIdle /\ VlIdle /\ DyIdle /\ HlIdle
    /\ fsPc = "ready"
    /\ fsFile \in Files
    /\ fsRet = "none"
    /\ fsLoaded = [k \in SiteKeys |-> NotLoaded]
    /\ fsEnabled = {}
    /\ fsRaised = "none"
    /\ fsHist = NoHistory

NextLoad == LoadAll

SpecLoad == InitLoad /\ [][NextLoad]_vars

\* C23: load_all does not raise on any shape of an entry, and returns every
\* well-formed entry of the file.
C23_MalformedEntriesSkipped ==
    fsPc = "loaded" =>
        /\ fsRaised = "none"
        /\ \A k \in SiteKeys : fsFile.sites[k] \in WellFormedEntries => fsLoaded[k].loaded

\* the configs the add command saves
SavedConfigs == {StoredConfig(name, enabled) : name \in {"Site", "Other"}, enabled \in BOOLEAN}

Flag(enabled) == IF enabled THEN "enabled" ELSE "disabled"

\* an operation on the store: the file, the return value, and the record of
\* what the operations so far amount to
StoreOp(out, op, key, holds) ==
    /\ fsFile' = out.file
    /\ fsRet' = out.ret
    /\ fsRaised' = out.raises
    /\ fsHist' = [holds |-> [fsHist.holds EXCEPT ![key] = holds],
                  op |-> op, key |-> key, before |-> fsFile]
    /\ fsPc' = "ready"
    /\ UNCHANGED <<fsLoaded, fsEnabled>>
    /\ UNCHANGED exceptFs

StoreSave(key, config) ==
    /\ fsPc \in {"ready", "loaded"}
    /\ StoreOp(save(fsFile, key, config), "save", key, Flag(config.enabled))

StoreRemove(key) ==
    /\ fsPc \in {"ready", "loaded"}
    /\ StoreOp(remove(fsFile, key), "remove", key, "absent")

StoreSetEnabled(key, enabled) ==
    /\ fsPc \in {"ready", "loaded"}
    /\ StoreOp(set_enabled(fsFile, key, enabled), "set_enabled", key,
               IF fsHist.holds[key] = "absent" THEN "absent" ELSE Flag(enabled))

InitStore ==
    /\ BackingIdle
    /\ SyncIdle /\ StreamIdle /\ SortIdle /\ UiIdle /\ CfgIdle /\ GmIdle /\ ScIdle
    /\ AtIdle /\ AnIdle /\ VlIdle /\ DyIdle /\ HlIdle
    /\ fsPc = "ready"
    /\ fsFile \in {NoFile, [NoFile EXCEPT !.exists = TRUE]}
    /\ fsRet = "none"
    /\ fsLoaded = [k \in SiteKeys |-> NotLoaded]
    /\ fsEnabled = {}
    /\ fsRaised = "none"
    /\ fsHist = NoHistory

NextStore ==
    \/ \E k \in SiteKeys : \E config \in SavedConfigs : StoreSave(k, config)
    \/ \E k \in SiteKeys : StoreRemove(k)
    \/ \E k \in SiteKeys : \E enabled \in BOOLEAN : StoreSetEnabled(k, enabled)
    \/ LoadAll

SpecStore == InitStore /\ [][NextStore]_vars

\* C25: after any sequence of save, remove and set_enabled, load_enabled
\* returns the keys of load_all whose flag is true; load_all holds a key iff
\* its last save was not followed by a remove, with the flag of the last
\* save or set_enabled; and remove and set_enabled on an absent key return
\* False and leave the file as it was.
C25_LoadEnabledIsFilter ==
    /\ fsRaised = "none"
    /\ fsPc = "loaded" =>
          /\ fsEnabled = {k \in SiteKeys : fsLoaded[k].loaded /\ fsLoaded[k].enabled}
          /\ \A k \in SiteKeys :
                /\ fsLoaded[k].loaded <=> fsHist.holds[k] # "absent"
                /\ fsLoaded[k].loaded =>
                      (fsLoaded[k].enabled <=> fsHist.holds[k] = "enabled")
    /\ fsHist.op \in {"remove", "set_enabled"} =>
          IF load_all(fsHist.before).sites[fsHist.key].loaded
          THEN fsRet = "True"
          ELSE fsRet = "False" /\ fsFile = fsHist.before

\* C25 witness: after a set_enabled that disabled key 2, the store is read
\* with key 1 enabled and key 2 present and disabled
C25_Witness ==
    /\ fsPc = "loaded"
    /\ fsHist.op = "set_enabled"
    /\ fsHist.key = 2
    /\ fsRet = "True"
    /\ load_all(fsHist.before).sites[2].enabled
    /\ fsEnabled = {1}
    /\ fsLoaded[2].loaded

(***************************************************************************)
(* TorrentResult.health (core/models.py).  The ratio seeders / max(        *)
(* leechers, 1) is compared with 2 and with 1; with integers that is       *)
(* seeders > 2 * max(leechers, 1) and seeders > max(leechers, 1).          *)
(***************************************************************************)
\* a health that does not look for seeders = 0
healthNoDead(result) ==
    LET m == Max(result.leechers, 1)
    IN  IF result.seeders > 100 /\ result.seeders > 2 * m THEN "excellent"
        ELSE IF result.seeders > 20 /\ result.seeders > m THEN "good"
        ELSE IF result.seeders > 5 THEN "fair"
        ELSE "poor"

health(result) ==
    LET m == Max(result.leechers, 1)
    IN  IF result.seeders = 0 THEN "dead"
        ELSE IF result.seeders > 100 /\ result.seeders > 2 * m THEN "excellent"
        ELSE IF result.seeders > 20 /\ result.seeders > m THEN "good"
        ELSE IF result.seeders > 5 THEN "fair"
        ELSE "poor"

InitHealth ==
    /\ BackingIdle
    /\ SyncIdle /\ StreamIdle /\ SortIdle /\ UiIdle /\ CfgIdle /\ GmIdle /\ ScIdle
    /\ AtIdle /\ AnIdle /\ VlIdle /\ DyIdle /\ FsIdle
    /\ hlPc = "new"
    /\ \E seeders \in 0..MaxSeeders : \E leechers \in 0..MaxLeechers :
          hlResult = TorrentResult(<<>>, seeders, leechers, 0, "none", None, "None")
    /\ hlHealth = "dead"
    /\ hlPrev = [seeders |-> 0, health |-> "dead"]

\* health of the Result, and of one with the same leechers and fewer or as
\* many seeders
ReadHealth(fewer) ==
    /\ hlPc = "new"
    /\ fewer <= hlResult.seeders
    /\ hlHealth' = health(hlResult)
    /\ hlPrev' = [seeders |-> fewer,
                  health |-> health([hlResult EXCEPT !.seeders = fewer])]
    /\ hlPc' = "read"
    /\ UNCHANGED hlResult
    /\ UNCHANGED exceptHl

NextHealth == \E fewer \in 0..MaxSeeders : ReadHealth(fewer)

SpecHealth == InitHealth /\ [][NextHealth]_vars

\* C24: with seeders >= 0 and leechers >= 0, health is "dead" exactly when
\* seeders = 0, and with the same leechers a Result with more seeders never
\* has a worse health, in the order dead < poor < fair < good < excellent.
C24_HealthMonotone ==
    LET order == <<"dead", "poor", "fair", "good", "excellent">>
        Rank(h) == CHOOSE i \in 1..5 : order[i] = h
    IN  hlPc = "read" =>
            /\ hlHealth = "dead" <=> hlResult.seeders = 0
            /\ hlPrev.health = "dead" <=> hlPrev.seeders = 0
            /\ Rank(hlPrev.health) <= Rank(hlHealth)

\* C24 witness: with 51 leechers, 102 seeders are good and 103 excellent
C24_Witness ==
    /\ hlPc = "read"
    /\ hlResult.leechers = 51
    /\ hlResult.seeders = 103
    /\ hlHealth = "excellent"
    /\ hlPrev = [seeders |-> 102, health |-> "good"]

\* C29: in whatever order the tasks of search_sync finish, the futures are
\* taken in registry order, so all_results is the concatenation, in
\* registry order, of the outputs of the sources taken so far that did not
\* raise, and the returned list is the stable sort of that concatenation cut
\* at the limit: a function of the outputs, the limit and the sort mode.
C29_SyncIgnoresCompletionOrder ==
    (syEntry = "search_sync" /\ syPc \in {"collect", "done"}) =>
        /\ \E n \in 0..NumSources : syGot = 1..n
        /\ syAll = ConcatSurvivors(backing, syGot, NumSources)
        /\ syPc = "done" =>
              syRet = PySliceTo(SortResults(ConcatSurvivors(backing, SourceIdx, NumSources),
                                            sySort), syLimit)

\* C29 witness: search_sync returned two results with the same seeders, the
\* one of the first source before the one of the last source
C29_Witness ==
    /\ syEntry = "search_sync"
    /\ syPc = "done"
    /\ sySort = "seeders"
    /\ Len(syRet) >= 2
    /\ syRet[1].source = Sources[1]
    /\ syRet[2].source = Sources[NumSources]
    /\ syRet[1].seeders = syRet[2].seeders

====
